---- MODULE Spec2Model ----
(***************************************************************************)
(* A model of the CaseView bot's dialogue engine (src/unnamed/part_003):   *)
(* the per-user session store and its staging slot, the Case Assembly      *)
(* pipeline processCaseInput with its usage check, the reference codes,    *)
(* the case deletion buttons and the Scenario Wizard.                      *)
(*                                                                         *)
(* A handler is a task: it runs from one await to the next in one step.    *)
(* Awaits with no read or write of shared state on one side of them are    *)
(* merged into the neighbouring step.  Under Spec an inbound event is      *)
(* taken only when no handler is in flight (sequential, non-overlapping    *)
(* events); under SpecConc events arrive while handlers are suspended.     *)
(***************************************************************************)
EXTENDS Integers, Sequences, FiniteSets, TLC

\* ------------------------------------------------------------------ bounds
MaxCases == 3
MaxTicks == 1
MaxTasks == 2
MaxUploads == 2
MaxOthers == 15
MaxAsks == 2
MaxCodes == 3
MaxLinks == 1

Users == {1, 2}
TaskIds == 1..MaxTasks
ObjIds == 1..(Cardinality(Users) + MaxTasks)
Texts == {"facts a"}
FileIds == 1..MaxUploads
Mimes == {"application/pdf", "text/plain"}

\* ------------------------------------------------------- program constants
PLAN_LIMITS == [FREE |-> 2, PRO |-> 10, FIRM |-> 20, BAR |-> 999999]
FallbackScore == 50
StaffFirm == 15
StaffBar == 100
RefPad == 3
DescMax == 5000

\* --------------------------------------------------------- string helpers
StartsWith(s, p) == Len(s) >= Len(p) /\ SubSeq(s, 1, Len(p)) = p

Includes(s, p) == \E k \in 1..(Len(s) - Len(p) + 1) : SubSeq(s, k, k + Len(p) - 1) = p

Substring0(s, n) == IF Len(s) <= n THEN s ELSE SubSeq(s, 1, n)

RECURSIVE PadStart(_, _, _)
PadStart(s, n, c) == IF Len(s) >= n THEN s ELSE PadStart(c \o s, n, c)

\* ------------------------------------------------------------ calendar
\* A Date is a count of months; month 11 is December of year 0.
getMonth(d) == d % 12
getFullYear(d) == d \div 12

\* ------------------------------------------------------------ records
\* The answers of the signup wizard stored in the User row.
NoProfile == [firmName |-> "", firmState |-> "", branchName |-> "", fullName |-> "",
              email |-> "", phone |-> "", address |-> "", jobPosition |-> "",
              registrationNumber |-> ""]

\* A User row; `others` counts the rows of accounts that send no events in the run and
\* whose teamOwnerId is this row (the rest of user.teamMembers).
NoUser == [exists |-> FALSE, id |-> 0, subscription |-> "", monthlyUsage |-> 0,
           usageResetDate |-> 0, firmCode |-> "", teamOwnerId |-> 0, others |-> 0,
           accountType |-> "", approvalStatus |-> "", isBanned |-> FALSE,
           isVerified |-> FALSE, profile |-> NoProfile]

NoStaging == [type |-> "none", content |-> "", mime |-> ""]

NoInputs == [defined |-> FALSE, outcome |-> "", evidence |-> "", opposing |-> "",
             jurisdiction |-> "", caveats |-> ""]

EmptyInputs == [NoInputs EXCEPT !.defined = TRUE]

EmptyData == [jurisdiction |-> "", court |-> "", parties |-> "", facts |-> "",
              currentCaseId |-> 0, currentRefCode |-> "", scenarioInputs |-> NoInputs,
              verificationCode |-> "", conversationHistory |-> <<>>]

NewSession(step) == [step |-> step, data |-> EmptyData, staging |-> NoStaging]

FreeObj == NewSession("FREE")

NoAnalysis == [ok |-> FALSE, viabilityScore |-> 0, prediction |-> "", caseCategory |-> "",
               keyIssues |-> <<>>]

NoReply == [kind |-> "none", n1 |-> 0, n2 |-> 0, s |-> ""]

Reply(kind, n1, n2, s) == [kind |-> kind, n1 |-> n1, n2 |-> n2, s |-> s]

\* A handler in flight: its position, its arguments and its local variables.
IdleTask == [pc |-> "idle", u |-> 0, ret |-> "", sess |-> 0, input |-> NoStaging,
             facts |-> "", analysis |-> NoAnalysis, user |-> NoUser, count |-> 0,
             limit |-> 0, currentUsage |-> 0, now |-> 0, caseId |-> 0, refCode |-> "",
             text |-> "", inputs |-> NoInputs, saved |-> FALSE, answer |-> ""]

VARIABLES
  users,       \* the User table, by telegram id
  cases,       \* the CaseMatter table: row id -> row
  nextCaseId,  \* the table's autoincrement
  deleted,     \* history: the rows removed so far, [id, userId]
  now,         \* the current calendar month
  ticks,       \* months elapsed since the start
  provider,    \* AIService.provider, set at construction
  sessions,    \* the global `sessions`: telegram id -> session object (0: none)
  heap,        \* the session objects
  tasks,       \* the handler invocations in flight
  replies,     \* the last recorded outcome of a handler for each user: the result of
               \* processCaseInput, or the answer to a text outside a wizard
  offered,     \* the case buttons sent so far that only a handler's reply carries:
               \* [u, kind, id]; and the verification codes sent, numbered per account
  nextFile,    \* the number of the next staged input (an upload or a search query)
  taken,       \* history: how often each uploaded file was handed to a consumer
  lost,        \* history: the uploaded files overwritten in the slot before being taken
  env,         \* the run's environment: which accounts send events, whether events
               \* arrive while a handler is suspended at an await, and how the AI
               \* provider answers
  boot         \* the start of the process: the position of main and launchWithRetry,
               \* the attempt, the delay before the next one and the last error

db == <<users, cases, nextCaseId, deleted>>

clock == <<now, ticks>>

store == <<sessions, heap>>

out == <<replies, offered>>

files == <<nextFile, taken, lost>>

fixed == <<provider, env, boot>>

vars == <<db, clock, store, tasks, out, files, fixed>>

\* ------------------------------------------------------------ the store
Quiet == \A i \in TaskIds : tasks[i].pc = "idle"

\* A run exercises the guided intake together with some other flows of the bot.
Scenarios == {{"intake", "clock", "cases", "account"},
              {"intake", "upload", "search"},
              {"intake", "wizard", "cases"}}

\* The runs with overlapping events.
ScenariosConc == {{"upload"}}

\* A slip in the middleware: only banned accounts are stopped.
BlockedBanned(u) == users[u].exists /\ users[u].isBanned

\* The ban and approval middleware (lines 74-89) answers an event other than the exact
\* command /start and does not call next().
Blocked(u) ==
  users[u].exists /\ (users[u].isBanned \/ users[u].approvalStatus = "PENDING")

\* An inbound event of account u in a flow is taken: at any time when events overlap,
\* else when no handler is in flight.
Ready(u, flow) ==
  /\ u \in env.actors
  /\ flow \in env.flows
  /\ IF env.overlap THEN TRUE ELSE Quiet
  /\ ~Blocked(u)

FreeTask == CHOOSE i \in TaskIds : tasks[i].pc = "idle" /\ \A j \in TaskIds : tasks[j].pc = "idle" => i <= j

HasFreeTask == \E i \in TaskIds : tasks[i].pc = "idle"

\* Case rows that handlers in flight may still create.
CreatorPcs == {"doc_route", "an_call", "pci_begin", "pci_find", "pci_reset", "pci_create",
               "save_find", "save_create"}

Creating == Cardinality({i \in TaskIds : tasks[i].pc \in CreatorPcs})

MayCreate == nextCaseId + Creating <= MaxCases

\* A new object for the session of u: no handler in flight holds a reference to it.
FreshObj(h, u) ==
  LET held == {tasks[i].sess : i \in {j \in TaskIds : tasks[j].pc # "idle"}}
      free == {o \in ObjIds : o \notin held /\ (h[o].step = "FREE" \/ sessions[u] = o)}
  IN IF u \in free THEN u
     ELSE CHOOSE o \in free : \A p \in free : p \in Users \/ (o \notin Users /\ o <= p)

\* Objects no longer referenced are reclaimed.
Gc(h, s, t) ==
  [o \in ObjIds |->
     IF (\E u \in Users : s[u] = o) \/ (\E i \in TaskIds : t[i].pc # "idle" /\ t[i].sess = o)
     THEN h[o] ELSE FreeObj]

\* sessions[userId] = sessions[userId] || { step: 'IDLE', data: {} }
Ensure(s, h, u) ==
  IF s[u] # 0 THEN [s |-> s, h |-> h]
  ELSE LET o == FreshObj(h, u) IN
       [s |-> [s EXCEPT ![u] = o], h |-> [h EXCEPT ![o] = NewSession("IDLE")]]

\* sessions[userId] = { step, data: {} }
Replace(s, h, u, step) ==
  LET o == FreshObj(h, u) IN
  [s |-> [s EXCEPT ![u] = o], h |-> [h EXCEPT ![o] = NewSession(step)]]

UserCases(uid) == {c \in DOMAIN cases : cases[c].userId = uid}

\* ------------------------------------------------------------ pure code
\* PLAN_LIMITS[user?.subscription || 'FREE']; -1 stands for undefined.
PlanLimit(user) ==
  LET plan == IF user.subscription = "" THEN "FREE" ELSE user.subscription IN
  IF plan \in DOMAIN PLAN_LIMITS THEN PLAN_LIMITS[plan] ELSE -1

\* now.getMonth() !== resetDate.getMonth() || now.getFullYear() !== resetDate.getFullYear()
MonthPassed(n, resetDate) ==
  getMonth(n) # getMonth(resetDate) \/ getFullYear(n) # getFullYear(resetDate)

\* A slip in the comparison: the limit is reached one case late.
LimitReachedLate(currentUsage, limit) == limit # -1 /\ currentUsage > limit

\* currentUsage >= limit; a comparison with undefined is false.
LimitReached(currentUsage, limit) == limit # -1 /\ currentUsage >= limit

\* A slip in the numbering: the count of the cases is used as it is.
RefCodeFromCount(firmCode, count) ==
  IF firmCode # "" THEN firmCode \o "-" \o PadStart(ToString(count), RefPad, "0")
  ELSE "CASE-" \o ToString(count)

\* user?.firmCode ? `${firmCode}-${String(count + 1).padStart(3, '0')}` : `CASE-${count + 1}`
RefCode(firmCode, count) ==
  IF firmCode # "" THEN firmCode \o "-" \o PadStart(ToString(count + 1), RefPad, "0")
  ELSE "CASE-" \o ToString(count + 1)

ExtractOutcomes == {"ok", "download_error", "parse_error"}

\* extractTextFromDocument: the text of a fetched document, or an error string.
extractTextFromDocument(fileUrlOrPath, mimeType, outcome) ==
  IF ~StartsWith(fileUrlOrPath, "http") THEN "Local file path extraction not supported."
  ELSE IF outcome = "download_error" THEN "Error extracting text: timeout"
  ELSE IF Includes(mimeType, "pdf") \/ Includes(mimeType, "word")
          \/ Includes(mimeType, "officedocument") \/ StartsWith(mimeType, "image")
       THEN IF outcome = "parse_error" THEN "Error extracting text: bad file"
            ELSE "text of " \o fileUrlOrPath
  ELSE "[System] Unsupported file type: " \o mimeType \o ". Please upload PDF, Word, or Image."

AiOutcomes == {"ok", "call_fails", "malformed"}

\* AIService.analyzeLegalText: ok is FALSE where the call throws.
analyzeLegalText(prov, outcome) ==
  IF prov = "none" THEN [NoAnalysis EXCEPT !.prediction = "No AI Provider"]
  ELSE IF outcome = "ok"
       THEN [ok |-> TRUE, viabilityScore |-> 80, prediction |-> "Strong",
             caseCategory |-> "Contract", keyIssues |-> <<"Breach">>]
  ELSE IF outcome = "call_fails"
       THEN [ok |-> TRUE, viabilityScore |-> FallbackScore, prediction |-> "Error",
             caseCategory |-> "Unknown", keyIssues |-> <<"AI Analysis Failed">>]
  \* JSON.parse of a reply without the fields: the caller's keyIssues.slice throws
  ELSE [NoAnalysis EXCEPT !.prediction = "Cannot read properties of undefined"]

\* The text stored as the row's analysis.
FormatBrief(a) ==
  "CASE BRIEF: " \o a.caseCategory \o " Viability Score: " \o ToString(a.viabilityScore)
    \o "/100 Prediction: " \o a.prediction

CaseRow(id, uid, title, description, analysis, refCode) ==
  [id |-> id, userId |-> uid, title |-> title, description |-> description,
   analysis |-> analysis, qaHistory |-> <<>>, scenarios |-> "", refCode |-> refCode]

\* ------------------------------------------------------------ Init
\* Account 1 is a new Free account; account 2 is a Firm account with the code ABC that
\* has used all but two of its cases this month and deleted them again.
InitUser(u) ==
  [NoUser EXCEPT !.exists = TRUE, !.id = u,
                 !.subscription = IF u = 1 THEN "FREE" ELSE "FIRM",
                 !.monthlyUsage = IF u = 1 THEN 0 ELSE PLAN_LIMITS.FIRM - 2,
                 !.usageResetDate = 11, !.firmCode = IF u = 1 THEN "" ELSE "ABC",
                 !.accountType = IF u = 1 THEN "INDIVIDUAL" ELSE "FIRM",
                 !.approvalStatus = "APPROVED"]

\* const MAX_RETRIES = 10; const INITIAL_DELAY = 5000 (index.ts)
MAX_RETRIES == 10

INITIAL_DELAY == 5000

NoError == [code |-> "", message |-> ""]

\* The process after launchWithRetry has returned at its first attempt: the bot polls.
Polling == [pc |-> "polling", attempt |-> 1, delay |-> 0, error |-> NoError, failures |-> 0,
            rejected |-> FALSE]

\* The state at construction but for the User table and the start of the process.
Constructed ==
  /\ cases = <<>>
  /\ nextCaseId = 1
  /\ deleted = {}
  /\ now = 11
  /\ ticks = 0
  /\ provider \in {"openai", "none"}
  /\ sessions = [u \in Users |-> 0]
  /\ heap = [o \in ObjIds |-> FreeObj]
  /\ tasks = [i \in TaskIds |-> IdleTask]
  /\ replies = [u \in Users |-> NoReply]
  /\ offered = {}
  /\ nextFile = 1
  /\ taken = [f \in FileIds |-> 0]
  /\ lost = {}

\* The state at construction but for the User table, the bot polling.
Blank == Constructed /\ boot = Polling

Start == users = [u \in Users |-> InitUser(u)] /\ Blank

\* How the provider answers during the run; without a provider there is no call.
Env(actors, overlap, flows) ==
  \E ao \in AiOutcomes :
     /\ provider = "none" => ao = "call_fails"
     /\ env = [actors |-> actors, overlap |-> overlap, ai |-> ao, flows |-> flows]

\* One account sends events, one after the other.
Init == Start /\ \E u \in Users, fl \in Scenarios : Env({u}, FALSE, fl)

\* One account sends events that overlap.
InitConc == Start /\ \E u \in Users, fl \in ScenariosConc : Env({u}, TRUE, fl)

\* ------------------------------------------------------------ helpers of actions
Sess(u) == heap[sessions[u]]

Spawn(t) == [tasks EXCEPT ![FreeTask] = t]

Finish(i) == [tasks EXCEPT ![i] = IdleTask]

SetHeap(h, s, t) == heap' = Gc(h, s, t)

Say(u, r) == replies' = [replies EXCEPT ![u] = r]

Offer(u, kinds, id) == offered \cup {[u |-> u, kind |-> k, id |-> id] : k \in kinds}

\* A button stays in the chat once it was sent.  The menus without a case id (upload,
\* search, cancel and account prompts) are in the chat of every account from earlier use.
Menus == {"stage_new", "stage_existing", "stage_cancel", "stage_analyze", "stage_save",
          "search_region", "qa_done", "confirm_delete_account"}

\* /history lists the cases of the account, at any time and without a write to the
\* store: a case of the account, also a removed one, is taken as listed.
Listed(u, id) ==
  \/ id \in DOMAIN cases /\ (IF id \in DOMAIN cases THEN cases[id].userId = u ELSE FALSE)
  \/ [id |-> id, userId |-> u] \in deleted

Offered(u, kind, id) ==
  \/ kind \in Menus /\ id = 0
  \/ kind \in {"view_case", "scenario_case", "delete_case", "stage_assoc", "run_scenario"}
       /\ Listed(u, id)
  \/ [u |-> u, kind |-> kind, id |-> id] \in offered

\* The buttons under a case brief that the model follows.
BriefButtons == {"scenario_case", "ask", "export_case", "add_link"}

\* fileLink.href of the n-th upload.
FileUrl(n) == "https://files/" \o ToString(n)

\* A slip in the staging: an input still in the slot is kept.
StageKeepsOld(slot, new) == IF slot.type # "none" THEN slot ELSE new

\* session.staging = { type, content, mime }: the slot holds the input staged last.
Stage(slot, new) == new

\* History: the uploaded file that a new staged input overwrites before it was taken.
Overwritten(slot) ==
  IF slot.type = "file" THEN {f \in FileIds : FileUrl(f) = slot.content /\ taken[f] = 0} ELSE {}

\* History: the staged input is handed to a consumer.
Take(slot) ==
  [f \in FileIds |->
     IF slot.type = "file" /\ FileUrl(f) = slot.content /\ taken[f] < 2
     THEN taken[f] + 1 ELSE taken[f]]

\* ------------------------------------------------------------ the clock
Tick ==
  /\ "clock" \in env.flows
  /\ IF env.overlap THEN TRUE ELSE Quiet
  /\ ticks < MaxTicks
  /\ now' = now + 1
  /\ ticks' = ticks + 1
  /\ UNCHANGED <<db, store, tasks, out, files, fixed>>

\* ------------------------------------------------------------ /newbrief
Newbrief(u) ==
  LET r == Replace(sessions, heap, u, "WAITING_JURISDICTION") IN
  /\ Ready(u, "intake")
  /\ sessions' = r.s
  /\ SetHeap(r.h, r.s, tasks)
  /\ UNCHANGED <<db, clock, tasks, out, files, fixed>>

\* ------------------------------------------------------------ processCaseInput
\* The caller resumes at t.ret once processCaseInput has returned.
Return(i, t) == IF t.ret = "end" THEN Finish(i) ELSE [tasks EXCEPT ![i] = [t EXCEPT !.pc = t.ret]]

\* Extraction and AI analysis (lines 1092-1134).  An input of undefined throws at
\* textOrFile.content, past the caller's remaining statements.
PciBegin(i) ==
  LET t == tasks[i] IN
  /\ t.pc = "pci_begin"
  /\ \E eo \in ExtractOutcomes :
       LET facts == IF t.input.type = "file"
                    THEN extractTextFromDocument(t.input.content, t.input.mime, eo)
                    ELSE t.input.content
           analysis == analyzeLegalText(provider, env.ai)
       IN
       IF t.input.type = "none"
       THEN /\ tasks' = Finish(i)
            /\ Say(t.u, Reply("threw", 0, 0, "TypeError"))
       ELSE IF t.input.type = "file" /\ StartsWith(facts, "Error")
       THEN /\ tasks' = Return(i, t)
            /\ Say(t.u, Reply("extraction_failed", 0, 0, facts))
       ELSE IF ~analysis.ok
       THEN /\ tasks' = Return(i, t)
            /\ Say(t.u, Reply("analysis_failed", 0, 0, analysis.prediction))
       ELSE /\ tasks' = [tasks EXCEPT ![i] = [t EXCEPT !.pc = "pci_find", !.facts = facts,
                                                       !.analysis = analysis]]
            /\ UNCHANGED replies
  /\ SetHeap(heap, sessions, tasks')
  /\ UNCHANGED <<db, clock, sessions, offered, files, fixed>>

\* prisma.user.findUnique with the cases, then the usage check (lines 1141-1159).
PciFind(i) ==
  LET t == tasks[i]
      user == users[t.u]
      limit == PlanLimit(user)
      currentUsage == user.monthlyUsage
      resetDate == IF user.exists THEN user.usageResetDate ELSE now
      count == Cardinality(UserCases(user.id))
      t1 == [t EXCEPT !.user = user, !.limit = limit, !.currentUsage = currentUsage,
                      !.now = now, !.count = count]
  IN
  /\ t.pc = "pci_find"
  /\ IF MonthPassed(now, resetDate)
     THEN /\ tasks' = [tasks EXCEPT ![i] = [t1 EXCEPT !.pc = "pci_reset"]]
          /\ UNCHANGED replies
     ELSE IF LimitReached(currentUsage, limit)
     THEN /\ tasks' = Return(i, t)
          /\ Say(t.u, Reply("quota_exceeded", currentUsage, limit, ""))
     ELSE /\ tasks' = [tasks EXCEPT ![i] = [t1 EXCEPT !.pc = "pci_create"]]
          /\ UNCHANGED replies
  /\ SetHeap(heap, sessions, tasks')
  /\ UNCHANGED <<db, clock, sessions, offered, files, fixed>>

\* prisma.user.update({ monthlyUsage: 0, usageResetDate: now }) (lines 1151-1154); the
\* update of a missing row throws into the inner catch.
PciReset(i) ==
  LET t == tasks[i] IN
  /\ t.pc = "pci_reset"
  /\ IF users[t.u].exists
     THEN /\ users' = [users EXCEPT ![t.u].monthlyUsage = 0, ![t.u].usageResetDate = t.now]
          /\ tasks' = [tasks EXCEPT ![i].pc = "pci_create"]
     ELSE /\ tasks' = [tasks EXCEPT ![i].pc = "pci_sess"]
          /\ UNCHANGED users
  /\ SetHeap(heap, sessions, tasks')
  /\ UNCHANGED <<cases, nextCaseId, deleted, clock, sessions, out, files, fixed>>

\* A row can be written for an owner that is in the User table (foreign key).
OwnerExists(uid) == \E v \in Users : users[v].exists /\ users[v].id = uid

\* A variant without the window: the rows are counted anew as the row is written.
PciCreateFresh(i) ==
  LET t == tasks[i]
      uid == IF t.user.id # 0 THEN t.user.id ELSE 1
      savedRefCode == RefCode(t.user.firmCode, Cardinality(UserCases(uid)))
      row == CaseRow(nextCaseId, uid, t.analysis.caseCategory \o " Case",
                     Substring0(t.facts, DescMax), FormatBrief(t.analysis), savedRefCode)
  IN
  /\ t.pc = "pci_create"
  /\ \/ /\ OwnerExists(uid)
        /\ cases' = cases @@ (nextCaseId :> row)
        /\ nextCaseId' = nextCaseId + 1
        /\ tasks' = [tasks EXCEPT ![i] = [t EXCEPT !.pc = "pci_usage", !.caseId = nextCaseId,
                                                   !.refCode = savedRefCode]]
     \/ /\ tasks' = [tasks EXCEPT ![i] = [t EXCEPT !.pc = "pci_sess", !.refCode = savedRefCode]]
        /\ UNCHANGED <<cases, nextCaseId>>
  /\ SetHeap(heap, sessions, tasks')
  /\ UNCHANGED <<users, deleted, clock, sessions, out, files, fixed>>

\* The reference code and prisma.caseMatter.create (lines 1161-1176); a failed write
\* throws into the inner catch with savedCaseId still 0.
PciCreate(i) ==
  LET t == tasks[i]
      savedRefCode == RefCode(t.user.firmCode, t.count)
      uid == IF t.user.id # 0 THEN t.user.id ELSE 1
      row == CaseRow(nextCaseId, uid, t.analysis.caseCategory \o " Case",
                     Substring0(t.facts, DescMax), FormatBrief(t.analysis), savedRefCode)
  IN
  /\ t.pc = "pci_create"
  /\ \/ /\ OwnerExists(uid)
        /\ cases' = cases @@ (nextCaseId :> row)
        /\ nextCaseId' = nextCaseId + 1
        /\ tasks' = [tasks EXCEPT ![i] = [t EXCEPT !.pc = "pci_usage", !.caseId = nextCaseId,
                                                   !.refCode = savedRefCode]]
     \/ /\ tasks' = [tasks EXCEPT ![i] = [t EXCEPT !.pc = "pci_sess", !.refCode = savedRefCode]]
        /\ UNCHANGED <<cases, nextCaseId>>
  /\ SetHeap(heap, sessions, tasks')
  /\ UNCHANGED <<users, deleted, clock, sessions, out, files, fixed>>

\* newUsage >= Math.floor(limit * 0.8) && newUsage < limit (line 1185); with an undefined
\* limit both comparisons are false.
UsageWarning(newUsage, limit) ==
  limit # -1 /\ newUsage >= (limit * 8) \div 10 /\ newUsage < limit

\* prisma.user.update({ monthlyUsage: newUsage }) and the usage warning (lines
\* 1178-1187); the update of a missing row throws into the inner catch.
PciUsage(i) ==
  LET t == tasks[i]
      newUsage == t.currentUsage + 1
  IN
  /\ t.pc = "pci_usage"
  /\ IF users[t.u].exists
     THEN /\ users' = [users EXCEPT ![t.u].monthlyUsage = newUsage]
          /\ tasks' = [tasks EXCEPT ![i] = [t EXCEPT !.pc = "pci_sess", !.saved = TRUE]]
          /\ IF UsageWarning(newUsage, t.limit)
             THEN Say(t.u, Reply("usage_warning", newUsage, t.limit, ""))
             ELSE UNCHANGED replies
     ELSE /\ tasks' = [tasks EXCEPT ![i].pc = "pci_sess"]
          /\ UNCHANGED <<users, replies>>
  /\ SetHeap(heap, sessions, tasks')
  /\ UNCHANGED <<cases, nextCaseId, deleted, clock, sessions, offered, files, fixed>>

\* The session writes and the brief with its buttons (lines 1185-1223).
PciSess(i) ==
  LET t == tasks[i]
      e == Ensure(sessions, heap, t.u)
      o == e.s[t.u]
      d0 == e.h[o].data
      \* lines 1190-1193, skipped when the inner try threw before them
      d1 == IF t.saved
            THEN [d0 EXCEPT !.currentCaseId = t.caseId, !.currentRefCode = t.refCode, !.facts = t.facts]
            ELSE d0
      \* lines 1197-1200
      d2 == [d1 EXCEPT !.currentCaseId = t.caseId, !.conversationHistory = <<>>]
  IN
  /\ t.pc = "pci_sess"
  /\ sessions' = e.s
  /\ tasks' = Return(i, t)
  /\ SetHeap([e.h EXCEPT ![o].data = d2], sessions', tasks')
  /\ Say(t.u, Reply("brief", t.caseId, 0, t.refCode))
  /\ offered' = IF t.caseId # 0 THEN Offer(t.u, BriefButtons, t.caseId) ELSE offered
  /\ UNCHANGED <<db, clock, files, fixed>>

\* ------------------------------------------------------------ bot.on('text')
\* The texts sent outside a wizard: a sentence, or a word with a leading slash that is
\* no command of the bot.
IdleTexts == Texts \cup {"/newbreif"}

\* if (text.startsWith('/')) return; return ctx.reply('Please use /newbrief ...')
IdleReply(text) == IF StartsWith(text, "/") THEN "ignored" ELSE "guidance"

\* No session, or the idle step (lines 1735-1738); the outcome is recorded with the text.
TextIdle(u, text) ==
  /\ Ready(u, "intake")
  /\ IF sessions[u] = 0 THEN TRUE ELSE Sess(u).step = "IDLE"
  /\ Say(u, Reply(IdleReply(text), 0, 0, text))
  /\ UNCHANGED <<db, clock, store, tasks, offered, files, fixed>>

\* A slip in the intake: the answer of the Parties step already counts a case.
TextIntakeCharged(u, text) ==
  LET o == sessions[u]
      step == heap[o].step
  IN
  /\ Ready(u, "intake")
  /\ o # 0
  /\ step \in {"WAITING_JURISDICTION", "WAITING_COURT", "WAITING_PARTIES"}
  /\ SetHeap(CASE step = "WAITING_JURISDICTION" ->
                    [heap EXCEPT ![o].data.jurisdiction = text, ![o].step = "WAITING_COURT"]
               [] step = "WAITING_COURT" ->
                    [heap EXCEPT ![o].data.court = text, ![o].step = "WAITING_PARTIES"]
               [] OTHER ->
                    [heap EXCEPT ![o].data.parties = text, ![o].step = "WAITING_FACTS"],
             sessions, tasks)
  /\ users' = IF step = "WAITING_PARTIES" THEN [users EXCEPT ![u].monthlyUsage = @ + 1]
              ELSE users
  /\ UNCHANGED <<cases, nextCaseId, deleted, clock, sessions, tasks, out, files, fixed>>

\* WAITING_JURISDICTION, WAITING_COURT, WAITING_PARTIES (lines 2142-2158).
TextIntake(u, text) ==
  LET o == sessions[u]
      step == heap[o].step
  IN
  /\ Ready(u, "intake")
  /\ o # 0
  /\ step \in {"WAITING_JURISDICTION", "WAITING_COURT", "WAITING_PARTIES"}
  /\ SetHeap(CASE step = "WAITING_JURISDICTION" ->
                    [heap EXCEPT ![o].data.jurisdiction = text, ![o].step = "WAITING_COURT"]
               [] step = "WAITING_COURT" ->
                    [heap EXCEPT ![o].data.court = text, ![o].step = "WAITING_PARTIES"]
               [] OTHER ->
                    [heap EXCEPT ![o].data.parties = text, ![o].step = "WAITING_FACTS"],
             sessions, tasks)
  /\ UNCHANGED <<db, clock, sessions, tasks, out, files, fixed>>

\* WAITING_FACTS (lines 2160-2165).
TextFacts(u, text) ==
  LET o == sessions[u] IN
  /\ Ready(u, "intake")
  /\ o # 0
  /\ heap[o].step = "WAITING_FACTS"
  /\ HasFreeTask /\ MayCreate
  /\ tasks' = Spawn([IdleTask EXCEPT !.pc = "pci_begin", !.u = u, !.ret = "end", !.sess = o,
                                     !.input = [type |-> "text", content |-> text, mime |-> ""]])
  /\ SetHeap([heap EXCEPT ![o].data.facts = text, ![o].step = "IDLE"], sessions, tasks')
  /\ UNCHANGED <<db, clock, sessions, out, files, fixed>>

\* ------------------------------------------------------------ bot.on(['document', 'photo'])
\* The upload once getFileLink has returned (lines 2188-2217).
Upload(u, mime) ==
  LET e == Ensure(sessions, heap, u)
      o == e.s[u]
      new == [type |-> "file", content |-> FileUrl(nextFile), mime |-> mime]
      h1 == [e.h EXCEPT ![o].staging = Stage(@, new)]
  IN
  /\ Ready(u, "upload")
  /\ nextFile <= MaxUploads
  /\ nextFile' = nextFile + 1
  /\ \/ /\ sessions' = e.s
        /\ lost' = lost \cup Overwritten(e.h[o].staging)
        /\ IF e.h[o].step = "WAITING_FACTS"
           THEN /\ HasFreeTask /\ MayCreate
                /\ tasks' = Spawn([IdleTask EXCEPT !.pc = "doc_route", !.u = u, !.sess = o])
           ELSE UNCHANGED tasks
        /\ SetHeap(h1, sessions', tasks')
     \/ \* getFileLink throws
        /\ UNCHANGED <<store, tasks, lost>>
  /\ UNCHANGED <<db, clock, out, taken, fixed>>

\* The upload during WAITING_FACTS, after its reply (lines 2201-2202).
DocRoute(i) ==
  LET t == tasks[i]
      staging == heap[t.sess].staging
  IN
  /\ t.pc = "doc_route"
  /\ tasks' = [tasks EXCEPT ![i] = [t EXCEPT !.pc = "pci_begin", !.ret = "doc_clear",
                                             !.input = staging]]
  /\ taken' = Take(staging)
  /\ SetHeap([heap EXCEPT ![t.sess].step = "IDLE"], sessions, tasks')
  /\ UNCHANGED <<db, clock, sessions, out, nextFile, lost, fixed>>

\* currentSession.staging = undefined (line 2203).
DocClear(i) ==
  LET t == tasks[i] IN
  /\ t.pc = "doc_clear"
  /\ tasks' = Finish(i)
  /\ SetHeap([heap EXCEPT ![t.sess].staging = NoStaging], sessions, tasks')
  /\ UNCHANGED <<db, clock, sessions, out, files, fixed>>

\* ------------------------------------------------------------ stage_new, stage_existing
StageNew(u) ==
  /\ Ready(u, "upload")
  /\ Offered(u, "stage_new", 0)
  /\ UNCHANGED <<db, clock, store, tasks, out, files, fixed>>

\* The last five cases of a user, as user.cases.slice(-5).
LastCases(uid) ==
  {c \in UserCases(uid) : Cardinality({d \in UserCases(uid) : d > c}) < 5}

StageExisting(u) ==
  LET user == users[u] IN
  /\ Ready(u, "upload")
  /\ Offered(u, "stage_existing", 0)
  /\ UNCHANGED <<db, clock, store, tasks, out, files, fixed>>

\* if (!session?.staging) return ...: the check every consuming button starts with.
HasStaging(o) == IF o = 0 THEN FALSE ELSE heap[o].staging.type # "none"

\* ------------------------------------------------------------ stage_assoc_<id>
StageAssoc(u, id) ==
  LET o == sessions[u] IN
  /\ Ready(u, "upload")
  /\ Offered(u, "stage_assoc", id)
  /\ IF HasStaging(o)
     THEN /\ HasFreeTask
          /\ tasks' = Spawn([IdleTask EXCEPT !.pc = "assoc_find", !.u = u, !.sess = o, !.caseId = id])
     ELSE /\ UNCHANGED tasks
  /\ SetHeap(heap, sessions, tasks')
  /\ UNCHANGED <<db, clock, sessions, out, files, fixed>>

\* prisma.caseMatter.findUnique (line 2273).
AssocFind(i) ==
  LET t == tasks[i]
      found == t.caseId \in DOMAIN cases
  IN
  /\ t.pc = "assoc_find"
  /\ tasks' = [tasks EXCEPT ![i] = [t EXCEPT !.pc = "assoc_update",
                 !.text = IF found THEN cases[t.caseId].description ELSE "",
                 !.refCode = IF found THEN cases[t.caseId].refCode ELSE ""]]
  /\ SetHeap(heap, sessions, tasks')
  /\ UNCHANGED <<db, clock, sessions, out, files, fixed>>

\* prisma.caseMatter.update (lines 2274-2279): reading the content of a cleared slot
\* throws, and so does the update of a missing row.
AssocUpdate(i) ==
  LET t == tasks[i]
      staging == heap[t.sess].staging
  IN
  /\ t.pc = "assoc_update"
  /\ IF staging.type # "none" /\ t.caseId \in DOMAIN cases
     THEN /\ cases' = [cases EXCEPT ![t.caseId].description =
                         t.text \o "\n\n[Added File]: " \o staging.content]
          /\ taken' = Take(staging)
          /\ tasks' = [tasks EXCEPT ![i].pc = "assoc_done"]
     ELSE /\ tasks' = Finish(i)
          /\ UNCHANGED <<cases, taken>>
  /\ SetHeap(heap, sessions, tasks')
  /\ UNCHANGED <<users, nextCaseId, deleted, clock, sessions, out, nextFile, lost, fixed>>

\* The session writes (lines 2284-2289).
AssocDone(i) ==
  LET t == tasks[i]
      o == t.sess
      staging == heap[o].staging
  IN
  /\ t.pc = "assoc_done"
  /\ tasks' = Finish(i)
  /\ IF staging.type # "none"
     THEN SetHeap([heap EXCEPT ![o].data.facts = staging.content,
                               ![o].step = "WAITING_QUESTION",
                               ![o].staging = NoStaging], sessions, tasks')
     ELSE \* session.staging.content throws
          SetHeap(heap, sessions, tasks')
  /\ UNCHANGED <<db, clock, sessions, out, files, fixed>>

\* ------------------------------------------------------------ stage_analyze
StageAnalyze(u) ==
  LET o == sessions[u] IN
  /\ Ready(u, "upload")
  /\ Offered(u, "stage_analyze", 0)
  /\ IF HasStaging(o)
     THEN /\ HasFreeTask /\ MayCreate
          /\ tasks' = Spawn([IdleTask EXCEPT !.pc = "an_call", !.u = u, !.sess = o])
     ELSE /\ UNCHANGED tasks
  /\ SetHeap(heap, sessions, tasks')
  /\ UNCHANGED <<db, clock, sessions, out, files, fixed>>

\* processCaseInput(ctx, session.staging, session.data) (line 2300).
AnCall(i) ==
  LET t == tasks[i]
      staging == heap[t.sess].staging
  IN
  /\ t.pc = "an_call"
  /\ tasks' = [tasks EXCEPT ![i] = [t EXCEPT !.pc = "pci_begin", !.ret = "an_clear",
                                             !.input = staging]]
  /\ taken' = Take(staging)
  /\ SetHeap(heap, sessions, tasks')
  /\ UNCHANGED <<db, clock, sessions, out, nextFile, lost, fixed>>

\* session.staging = undefined (line 2301).
AnClear(i) ==
  LET t == tasks[i] IN
  /\ t.pc = "an_clear"
  /\ tasks' = Finish(i)
  /\ SetHeap([heap EXCEPT ![t.sess].staging = NoStaging], sessions, tasks')
  /\ UNCHANGED <<db, clock, sessions, out, files, fixed>>

\* ------------------------------------------------------------ stage_save
StageSave(u) ==
  LET o == sessions[u] IN
  /\ Ready(u, "upload")
  /\ Offered(u, "stage_save", 0)
  /\ IF HasStaging(o)
     THEN /\ HasFreeTask /\ MayCreate
          /\ tasks' = Spawn([IdleTask EXCEPT !.pc = "save_find", !.u = u, !.sess = o])
     ELSE /\ UNCHANGED tasks
  /\ SetHeap(heap, sessions, tasks')
  /\ UNCHANGED <<db, clock, sessions, out, files, fixed>>

\* prisma.user.findUnique with the cases, and the reference code (lines 2315-2317).
SaveFind(i) ==
  LET t == tasks[i]
      user == users[t.u]
      count == Cardinality(UserCases(user.id))
  IN
  /\ t.pc = "save_find"
  /\ tasks' = [tasks EXCEPT ![i] = [t EXCEPT !.pc = "save_create", !.user = user, !.count = count,
                                             !.refCode = RefCode(user.firmCode, count)]]
  /\ SetHeap(heap, sessions, tasks')
  /\ UNCHANGED <<db, clock, sessions, out, files, fixed>>

\* prisma.caseMatter.create (lines 2319-2327): reading the content of a cleared slot
\* throws, and so does a failed write.
SaveCreate(i) ==
  LET t == tasks[i]
      staging == heap[t.sess].staging
      uid == IF t.user.id # 0 THEN t.user.id ELSE 1
      row == CaseRow(nextCaseId, uid, "Uploaded Document (Unprocessed)",
                     "File: " \o staging.content, "", t.refCode)
  IN
  /\ t.pc = "save_create"
  /\ \/ /\ staging.type # "none" /\ OwnerExists(uid)
        /\ cases' = cases @@ (nextCaseId :> row)
        /\ nextCaseId' = nextCaseId + 1
        /\ taken' = Take(staging)
        /\ tasks' = [tasks EXCEPT ![i] = [t EXCEPT !.pc = "save_done", !.caseId = nextCaseId]]
     \/ /\ tasks' = Finish(i)
        /\ UNCHANGED <<cases, nextCaseId, taken>>
  /\ SetHeap(heap, sessions, tasks')
  /\ UNCHANGED <<users, deleted, clock, sessions, out, nextFile, lost, fixed>>

\* The session writes (lines 2329-2331).
SaveDone(i) ==
  LET t == tasks[i]
      o == t.sess
  IN
  /\ t.pc = "save_done"
  /\ tasks' = Finish(i)
  /\ SetHeap([heap EXCEPT ![o].staging = NoStaging, ![o].step = "IDLE"], sessions, tasks')
  /\ UNCHANGED <<db, clock, sessions, out, files, fixed>>

\* ------------------------------------------------------------ stage_cancel
StageCancel(u) ==
  LET o == sessions[u] IN
  /\ Ready(u, "upload")
  /\ Offered(u, "stage_cancel", 0)
  /\ IF o # 0
     THEN SetHeap([heap EXCEPT ![o].staging = NoStaging, ![o].step = "IDLE"], sessions, tasks)
     ELSE UNCHANGED heap
  /\ UNCHANGED <<db, clock, sessions, tasks, out, files, fixed>>

\* ------------------------------------------------------------ /search, search_region
Search(u, input) ==
  LET e == Ensure(sessions, heap, u)
      o == e.s[u]
      new == [type |-> "text", content |-> input, mime |-> "text/plain"]
  IN
  /\ Ready(u, "search")
  /\ nextFile <= MaxUploads
  /\ nextFile' = nextFile + 1
  /\ sessions' = e.s
  /\ lost' = lost \cup Overwritten(e.h[o].staging)
  /\ SetHeap([e.h EXCEPT ![o].staging = Stage(@, new)], sessions', tasks)
  /\ UNCHANGED <<db, clock, tasks, out, taken, fixed>>

\* The query is read when the button arrives (lines 905-908).
SearchRegion(u) ==
  LET o == sessions[u]
      query == IF HasStaging(o) THEN heap[o].staging.content ELSE "legal research"
  IN
  /\ Ready(u, "search")
  /\ Offered(u, "search_region", 0)
  /\ HasFreeTask
  /\ tasks' = Spawn([IdleTask EXCEPT !.pc = "search_done", !.u = u, !.sess = o, !.text = query])
  /\ SetHeap(heap, sessions, tasks')
  /\ UNCHANGED <<db, clock, sessions, out, files, fixed>>

\* The results, then if (session) session.staging = undefined (lines 917-929).
SearchDone(i) ==
  LET t == tasks[i] IN
  /\ t.pc = "search_done"
  /\ tasks' = Finish(i)
  /\ IF t.sess # 0
     THEN SetHeap([heap EXCEPT ![t.sess].staging = NoStaging], sessions, tasks')
     ELSE SetHeap(heap, sessions, tasks')
  /\ UNCHANGED <<db, clock, sessions, out, files, fixed>>

\* ------------------------------------------------------------ /profile
\* /profile (lines 369-374) reads the account and answers; the session is not touched.
\* The answer is recorded with the step the session had.
Profile(u) ==
  /\ Ready(u, "profile")
  /\ Say(u, Reply(IF users[u].exists THEN "profile" ELSE "profile_missing", 0, 0,
                  IF sessions[u] = 0 THEN "" ELSE Sess(u).step))
  /\ UNCHANGED <<db, clock, store, tasks, offered, files, fixed>>

\* ------------------------------------------------------------ /history and the case buttons
History(u) ==
  LET user == users[u] IN
  /\ Ready(u, "cases")
  /\ UNCHANGED <<db, clock, store, tasks, out, files, fixed>>

\* view_case_<id> (lines 786-805); it is also the cancel button of the delete prompt.
ViewCase(u, id) ==
  /\ Ready(u, "cases")
  /\ Offered(u, "view_case", id)
  /\ UNCHANGED <<db, clock, store, tasks, out, files, fixed>>

\* run_scenario_<id>, the button of the case view (line 801): no handler is registered
\* for it, so the press is recorded as unhandled and nothing else happens.
RunScenario(u, id) ==
  /\ Ready(u, "cases")
  /\ Offered(u, "run_scenario", id)
  /\ Say(u, Reply("unhandled", id, 0, "run_scenario"))
  /\ UNCHANGED <<db, clock, store, tasks, offered, files, fixed>>

\* delete_case_<id> (lines 807-819).
DeleteCase(u, id) ==
  /\ Ready(u, "cases")
  /\ Offered(u, "delete_case", id)
  /\ offered' = Offer(u, {"confirm_delete"}, id)
  /\ UNCHANGED <<db, clock, store, tasks, replies, files, fixed>>

\* A slip in the where clause: the older rows go with the row of the request.
DeleteRowAndOlder(id) == [c \in {d \in DOMAIN cases : d > id} |-> cases[c]]

\* prisma.caseMatter.delete({ where: { id } })
DeleteRow(id) == [c \in DOMAIN cases \ {id} |-> cases[c]]

\* confirm_delete_<id> (lines 821-828).
ConfirmDelete(u, id) ==
  /\ Ready(u, "cases")
  /\ Offered(u, "confirm_delete", id)
  /\ HasFreeTask
  /\ tasks' = Spawn([IdleTask EXCEPT !.pc = "del_refresh", !.u = u, !.caseId = id])
  /\ IF id \in DOMAIN cases
     THEN /\ cases' = DeleteRow(id)
          /\ deleted' = deleted \cup {[id |-> id, userId |-> cases[id].userId]}
     ELSE /\ UNCHANGED <<cases, deleted>>
  /\ SetHeap(heap, sessions, tasks')
  /\ UNCHANGED <<users, nextCaseId, clock, sessions, out, files, fixed>>

\* The refreshed history (lines 830-839).
DelRefresh(i) ==
  LET t == tasks[i]
      user == users[t.u]
  IN
  /\ t.pc = "del_refresh"
  /\ tasks' = Finish(i)
  /\ SetHeap(heap, sessions, tasks')
  /\ UNCHANGED <<db, clock, sessions, out, files, fixed>>

\* ------------------------------------------------------------ /deleteaccount
DeleteAccount(u) ==
  /\ Ready(u, "account")
  /\ UNCHANGED <<db, clock, store, tasks, out, files, fixed>>

\* confirm_delete_account: prisma.user.findUnique (line 1601).
ConfirmDeleteAccount(u) ==
  LET user == users[u] IN
  /\ Ready(u, "account")
  /\ Offered(u, "confirm_delete_account", 0)
  /\ HasFreeTask
  /\ tasks' = Spawn([IdleTask EXCEPT !.pc = IF user.exists THEN "acct_cases" ELSE "acct_sess",
                                     !.u = u, !.user = user])
  /\ SetHeap(heap, sessions, tasks')
  /\ UNCHANGED <<db, clock, sessions, out, files, fixed>>

\* prisma.caseMatter.deleteMany({ where: { userId: user.id } }) (line 1603).
AcctCases(i) ==
  LET t == tasks[i]
      gone == UserCases(t.user.id)
  IN
  /\ t.pc = "acct_cases"
  /\ cases' = [c \in DOMAIN cases \ gone |-> cases[c]]
  /\ deleted' = deleted \cup {[id |-> c, userId |-> cases[c].userId] : c \in gone}
  /\ tasks' = [tasks EXCEPT ![i].pc = "acct_user"]
  /\ SetHeap(heap, sessions, tasks')
  /\ UNCHANGED <<users, nextCaseId, clock, sessions, out, files, fixed>>

\* prisma.user.delete({ where: { id: user.id } }) (line 1604); it throws into the catch
\* when the row is gone or still owns cases.
AcctUser(i) ==
  LET t == tasks[i] IN
  /\ t.pc = "acct_user"
  /\ IF users[t.u].exists /\ users[t.u].id = t.user.id /\ UserCases(t.user.id) = {}
     THEN /\ users' = [users EXCEPT ![t.u] = NoUser]
          /\ tasks' = [tasks EXCEPT ![i].pc = "acct_sess"]
     ELSE /\ tasks' = Finish(i)
          /\ UNCHANGED users
  /\ SetHeap(heap, sessions, tasks')
  /\ UNCHANGED <<cases, nextCaseId, deleted, clock, sessions, out, files, fixed>>

\* delete sessions[userId] (line 1608).
AcctSess(i) ==
  LET t == tasks[i] IN
  /\ t.pc = "acct_sess"
  /\ sessions' = [sessions EXCEPT ![t.u] = 0]
  /\ tasks' = Finish(i)
  /\ SetHeap(heap, sessions', tasks')
  /\ UNCHANGED <<db, clock, out, files, fixed>>

\* ------------------------------------------------------------ qa_done
\* qa_done (lines 1689-1694).
QaDone(u) ==
  /\ Ready(u, "wizard")
  /\ Offered(u, "qa_done", 0)
  /\ IF sessions[u] # 0
     THEN SetHeap([heap EXCEPT ![sessions[u]].step = "IDLE"], sessions, tasks)
     ELSE UNCHANGED heap
  /\ UNCHANGED <<db, clock, sessions, tasks, out, files, fixed>>

\* ------------------------------------------------------------ the Scenario Wizard
\* scenario_case_<id>: prisma.caseMatter.findUnique (lines 1401-1402).
ScenarioCase(u, id) ==
  /\ Ready(u, "wizard")
  /\ Offered(u, "scenario_case", id)
  /\ IF id \in DOMAIN cases /\ (IF id \in DOMAIN cases THEN cases[id].description # "" ELSE FALSE)
     THEN /\ HasFreeTask
          /\ tasks' = Spawn([IdleTask EXCEPT !.pc = "scen_init", !.u = u, !.caseId = id,
                                             !.text = cases[id].description])
     ELSE /\ UNCHANGED tasks
  /\ SetHeap(heap, sessions, tasks')
  /\ UNCHANGED <<db, clock, sessions, out, files, fixed>>

\* The wizard is initialised (lines 1405-1412).
ScenInit(i) ==
  LET t == tasks[i]
      e == Ensure(sessions, heap, t.u)
      o == e.s[t.u]
  IN
  /\ t.pc = "scen_init"
  /\ sessions' = e.s
  /\ tasks' = Finish(i)
  /\ SetHeap([e.h EXCEPT ![o].step = "SCENARIO_Q1",
                         ![o].data.currentCaseId = t.caseId,
                         ![o].data.facts = t.text,
                         ![o].data.scenarioInputs = EmptyInputs], sessions', tasks')
  /\ UNCHANGED <<db, clock, out, files, fixed>>

\* session.data.scenarioInputs = session.data.scenarioInputs || {}
OrEmpty(inputs) == IF inputs.defined THEN inputs ELSE EmptyInputs

\* A slip in the third question: its answer goes under the key of the second.
ScenarioKeyShifted(step) ==
  CASE step = "SCENARIO_Q1" -> "outcome"
    [] step = "SCENARIO_Q2" -> "evidence"
    [] step = "SCENARIO_Q3" -> "evidence"
    [] step = "SCENARIO_Q4" -> "jurisdiction"
    [] OTHER -> "caveats"

\* The key of scenarioInputs that the handler of a wizard step writes.
ScenarioKey(step) ==
  CASE step = "SCENARIO_Q1" -> "outcome"
    [] step = "SCENARIO_Q2" -> "evidence"
    [] step = "SCENARIO_Q3" -> "opposing"
    [] step = "SCENARIO_Q4" -> "jurisdiction"
    [] OTHER -> "caveats"

\* The step that the handler of a wizard step sets.
ScenarioNext(step) ==
  CASE step = "SCENARIO_Q1" -> "SCENARIO_Q2"
    [] step = "SCENARIO_Q2" -> "SCENARIO_Q3"
    [] step = "SCENARIO_Q3" -> "SCENARIO_Q4"
    [] step = "SCENARIO_Q4" -> "SCENARIO_Q5"
    [] OTHER -> "IDLE"

\* SCENARIO_Q1 .. SCENARIO_Q4 (lines 1781-1804); only Q1 falls back to an empty object,
\* a write to a key of undefined throws.
TextScenario(u, text) ==
  LET o == sessions[u]
      step == heap[o].step
      inputs == heap[o].data.scenarioInputs
  IN
  /\ Ready(u, "wizard")
  /\ o # 0
  /\ step \in {"SCENARIO_Q1", "SCENARIO_Q2", "SCENARIO_Q3", "SCENARIO_Q4"}
  /\ inputs.defined \/ step = "SCENARIO_Q1"
  /\ SetHeap([heap EXCEPT ![o].data.scenarioInputs =
                             [OrEmpty(inputs) EXCEPT ![ScenarioKey(step)] = text],
                          ![o].step = ScenarioNext(step)],
             sessions, tasks)
  /\ UNCHANGED <<db, clock, sessions, tasks, out, files, fixed>>

\* SCENARIO_Q5 up to the reply (lines 1806-1811).
TextScenarioQ5(u, text) ==
  LET o == sessions[u] IN
  /\ Ready(u, "wizard")
  /\ o # 0
  /\ heap[o].step = "SCENARIO_Q5"
  /\ heap[o].data.scenarioInputs.defined
  /\ HasFreeTask
  /\ tasks' = Spawn([IdleTask EXCEPT !.pc = "sim_run", !.u = u, !.sess = o])
  /\ SetHeap([heap EXCEPT ![o].data.scenarioInputs[ScenarioKey(heap[o].step)] = text,
                          ![o].step = ScenarioNext(heap[o].step)],
             sessions, tasks')
  /\ UNCHANGED <<db, clock, sessions, out, files, fixed>>

\* The check of the data and the call of runInteractiveSimulation (lines 1813-1816).
SimRun(i) ==
  LET t == tasks[i]
      data == heap[t.sess].data
  IN
  /\ t.pc = "sim_run"
  /\ IF data.facts = "" \/ ~data.scenarioInputs.defined
     THEN /\ tasks' = Finish(i)
     ELSE /\ tasks' = [tasks EXCEPT ![i] = [t EXCEPT !.pc = "sim_save", !.facts = data.facts,
                                                     !.inputs = data.scenarioInputs]]
  /\ SetHeap(heap, sessions, tasks')
  /\ UNCHANGED <<db, clock, sessions, out, files, fixed>>

\* AIService.runInteractiveSimulation
runInteractiveSimulation(prov, facts, inputs) ==
  IF prov = "none" THEN "Simulation Unavailable." ELSE "Simulation for " \o inputs.outcome

\* The result is stored in the case the session points to (lines 1817-1863); the update
\* of a missing row throws into the catch.
SimSave(i) ==
  LET t == tasks[i]
      simulation == runInteractiveSimulation(provider, t.facts, t.inputs)
      caseId == heap[t.sess].data.currentCaseId
  IN
  /\ t.pc = "sim_save"
  /\ tasks' = Finish(i)
  /\ IF caseId # 0 /\ caseId \notin DOMAIN cases
     THEN /\ UNCHANGED cases
     ELSE /\ cases' = IF caseId # 0 THEN [cases EXCEPT ![caseId].scenarios = simulation] ELSE cases
  /\ SetHeap(heap, sessions, tasks')
  /\ UNCHANGED <<users, nextCaseId, deleted, clock, sessions, out, files, fixed>>

\* ------------------------------------------------------------ the ask-question loop
Questions == {"q1", "q2"}

\* ask_<caseId> (lines 1255-1266): an existing session keeps its data.
Ask(u, id) ==
  LET o == sessions[u]
      n == FreshObj(heap, u)
  IN
  /\ Ready(u, "ask")
  /\ Offered(u, "ask", id)
  /\ IF o # 0
     THEN /\ UNCHANGED sessions
          /\ SetHeap([heap EXCEPT ![o].step = "WAITING_QUESTION"], sessions, tasks)
     ELSE /\ sessions' = [sessions EXCEPT ![u] = n]
          /\ SetHeap([heap EXCEPT ![n] = [NewSession("WAITING_QUESTION") EXCEPT
                                           !.data.currentCaseId = id]], sessions', tasks)
  /\ Say(u, Reply("ask", id, 0, ""))
  /\ UNCHANGED <<db, clock, tasks, offered, files, fixed>>

\* AIService.askAI: an answer, or a notice where there is no provider or the call fails.
askAI(prov, outcome, question) ==
  IF prov = "none" THEN "AI Service Unavailable."
  ELSE IF outcome = "call_fails" THEN "I'm having trouble analyzing that right now."
  ELSE "answer to " \o question

\* A slip in the log: only the answer is appended.
QaAppendAnswer(history, question, answer) ==
  history \o <<[role |-> "bot", content |-> answer]>>

\* history.push({ role: 'user', content: text }); history.push({ role: 'bot', content: answer })
QaAppend(history, question, answer) ==
  history \o <<[role |-> "user", content |-> question], [role |-> "bot", content |-> answer]>>

\* WAITING_QUESTION up to the call of askAI (lines 1941-1945).
TextQuestion(u, text) ==
  LET o == sessions[u] IN
  /\ Ready(u, "ask")
  /\ o # 0
  /\ heap[o].step = "WAITING_QUESTION"
  /\ Len(heap[o].data.conversationHistory) < 2 * MaxAsks
  /\ \A c \in DOMAIN cases : Len(cases[c].qaHistory) < 2 * MaxAsks
  /\ HasFreeTask
  /\ tasks' = Spawn([IdleTask EXCEPT !.pc = "qa_answer", !.u = u, !.sess = o, !.text = text,
                                     !.facts = heap[o].data.facts])
  /\ SetHeap(heap, sessions, tasks')
  /\ UNCHANGED <<db, clock, sessions, out, files, fixed>>

\* The answer is pushed to the history of the session and the focused case is read
\* (lines 1947-1953).
QaAnswer(i) ==
  LET t == tasks[i]
      a == askAI(provider, env.ai, t.text)
      d == heap[t.sess].data
  IN
  /\ t.pc = "qa_answer"
  /\ tasks' = IF d.currentCaseId > 0
              THEN [tasks EXCEPT ![i] = [t EXCEPT !.pc = "qa_find", !.answer = a,
                                                  !.caseId = d.currentCaseId]]
              ELSE Finish(i)
  /\ SetHeap([heap EXCEPT ![t.sess].data.conversationHistory = QaAppend(@, t.text, a)],
             sessions, tasks')
  /\ UNCHANGED <<db, clock, sessions, out, files, fixed>>

\* prisma.caseMatter.findUnique and the parsed log (lines 1955-1958); the log of a
\* missing row is empty.
QaFind(i) ==
  LET t == tasks[i]
      existingHistory == IF t.caseId \in DOMAIN cases THEN cases[t.caseId].qaHistory ELSE <<>>
  IN
  /\ t.pc = "qa_find"
  /\ tasks' = [tasks EXCEPT ![i] = [t EXCEPT !.pc = "qa_update",
                                             !.inputs = [NoInputs EXCEPT !.defined = TRUE],
                                             !.analysis = [NoAnalysis EXCEPT
                                                !.keyIssues = QaAppend(existingHistory, t.text, t.answer)]]]
  /\ SetHeap(heap, sessions, tasks')
  /\ UNCHANGED <<db, clock, sessions, out, files, fixed>>

\* prisma.caseMatter.update({ data: { qaHistory } }) (lines 1959-1962); the update of a
\* missing row throws into the catch.  The answer is sent with its buttons (1966-1989).
QaUpdate(i) ==
  LET t == tasks[i] IN
  /\ t.pc = "qa_update"
  /\ tasks' = Finish(i)
  /\ cases' = IF t.caseId \in DOMAIN cases
              THEN [cases EXCEPT ![t.caseId].qaHistory = t.analysis.keyIssues]
              ELSE cases
  /\ SetHeap(heap, sessions, tasks')
  /\ UNCHANGED <<users, nextCaseId, deleted, clock, sessions, out, files, fixed>>

\* ------------------------------------------------------------ export
\* The handlers of the export buttons that Telegraf reaches: of two registrations that
\* match a button the earlier one runs and does not call next(), so export_case_<id> is
\* handled at line 1282 and pre_export_<id> at line 1009, never at line 2465.
Formats == {"pdf", "word"}

Extents == {"full", "qa"}

\* export_case_<id> (lines 1282-1295): the extents are offered; no session is touched.
ExportCase(u, id) ==
  /\ Ready(u, "export")
  /\ Offered(u, "export_case", id)
  /\ offered' = Offer(u, {"exp"}, id)
  /\ UNCHANGED <<db, clock, store, tasks, replies, files, fixed>>

\* exp_(full|analysis|qa)_<id> (lines 1298-1310): the formats are offered.
ExpExtent(u, extent, id) ==
  /\ Ready(u, "export")
  /\ Offered(u, "exp", id)
  /\ offered' = Offer(u, {"export_" \o extent}, id)
  /\ UNCHANGED <<db, clock, store, tasks, replies, files, fixed>>

\* export_(pdf|word)_(full|analysis|qa)_<id> (lines 1313-1373): the case is read and the
\* document is sent at once; a missing case is answered.
ExportFile(u, format, extent, id) ==
  /\ Ready(u, "export")
  /\ Offered(u, "export_" \o extent, id)
  /\ Say(u, IF id \in DOMAIN cases THEN Reply("document", id, 0, format)
            ELSE Reply("case_not_found", id, 0, ""))
  /\ UNCHANGED <<db, clock, store, tasks, offered, files, fixed>>

\* ------------------------------------------------------------ the team
\* const staffLimits = { FREE: 0, PRO: 0, FIRM: 15, BAR: 100 } (line 259)
staffLimits == [FREE |-> 0, PRO |-> 0, FIRM |-> StaffFirm, BAR |-> StaffBar]

\* owner.subscription === 'BAR' ? 100 : 15 (lines 350 and 1705)
StaffLimitOf(subscription) == IF subscription = "BAR" THEN StaffBar ELSE StaffFirm

\* user.teamMembers.length of the row with this id.
MemberCount(id) ==
  users[id].others + Cardinality({v \in Users : users[v].exists /\ users[v].teamOwnerId = id})

\* The rows that prisma.user.findFirst({ where: { firmCode } }) may return.
RowsWithCode(code) == {v \in Users : users[v].exists /\ users[v].firmCode = code}

FirmCodes == {"ABC"}

\* In the runs with overlapping events account 1 is the invited account and account 2
\* the owner that adds staff.
TeamReady(u, flow) ==
  /\ Ready(u, "team")
  /\ env.overlap => (u = 1 <=> flow = "join")

\* /start invite_<code> with an owner found (lines 705-721): the join prompt.
StartInvite(u, code) ==
  /\ TeamReady(u, "join")
  /\ \E o \in RowsWithCode(code) : offered' = Offer(u, {"confirm_join"}, users[o].id)
  /\ UNCHANGED <<db, clock, store, tasks, replies, files, fixed>>

\* The fields of the owner row that the handlers of the team read.
OwnerFields(row) ==
  [NoUser EXCEPT !.exists = row.exists, !.id = row.id, !.subscription = row.subscription,
                 !.firmCode = row.firmCode, !.accountType = row.accountType]

\* confirm_join_<ownerId>: prisma.user.findUnique with the team members (line 1701).
ConfirmJoin(u, ownerId) ==
  /\ TeamReady(u, "join")
  /\ Offered(u, "confirm_join", ownerId)
  /\ HasFreeTask
  /\ tasks' = Spawn([IdleTask EXCEPT !.pc = "join_update", !.u = u,
                                     !.user = OwnerFields(users[ownerId]),
                                     !.count = MemberCount(ownerId)])
  /\ SetHeap(heap, sessions, tasks')
  /\ UNCHANGED <<db, clock, sessions, out, files, fixed>>

\* The staff limit and prisma.user.update of the joining account (lines 1702-1719);
\* the update of a missing row throws into the catch.
JoinUpdate(i) ==
  LET t == tasks[i]
      owner == t.user
  IN
  /\ t.pc = "join_update"
  /\ tasks' = Finish(i)
  /\ IF owner.exists /\ t.count < StaffLimitOf(owner.subscription) /\ users[t.u].exists
     THEN users' = [users EXCEPT ![t.u].teamOwnerId = owner.id,
                                 ![t.u].firmCode = owner.firmCode,
                                 ![t.u].accountType =
                                    IF owner.accountType = "FIRM" THEN "FIRM" ELSE "BAR",
                                 ![t.u].subscription = owner.subscription]
     ELSE UNCHANGED users
  /\ SetHeap(heap, sessions, tasks')
  /\ UNCHANGED <<cases, nextCaseId, deleted, clock, sessions, out, files, fixed>>

\* /addstaff (lines 343-366).
Addstaff(u) ==
  LET user == users[u]
      e == Ensure(sessions, heap, u)
  IN
  /\ TeamReady(u, "staff")
  /\ IF /\ user.exists
        /\ user.subscription \in {"FIRM", "BAR"}
        /\ MemberCount(user.id) < StaffLimitOf(user.subscription)
     THEN /\ sessions' = e.s
          /\ SetHeap([e.h EXCEPT ![e.s[u]].step = "WAITING_ADDSTAFF"], e.s, tasks)
     ELSE UNCHANGED store
  /\ UNCHANGED <<db, clock, tasks, out, files, fixed>>

\* The usernames typed after /addstaff: an account of the run, an account that sends no
\* events and is in no team, or nobody.
Usernames == {"user1", "user2", "other", "nobody"}

UserByName(name) == IF name = "user1" THEN 1 ELSE IF name = "user2" THEN 2 ELSE 0

\* WAITING_ADDSTAFF: prisma.user.findFirst({ where: { username } }) (lines 2034-2047).
TextAddstaff(u, name) ==
  LET o == sessions[u]
      v == UserByName(name)
      found == IF v # 0 THEN users[v].exists ELSE name = "other"
      inTeam == IF v # 0 THEN users[v].teamOwnerId # 0 ELSE FALSE
  IN
  /\ TeamReady(u, "staff")
  /\ o # 0
  /\ heap[o].step = "WAITING_ADDSTAFF"
  /\ IF ~found THEN UNCHANGED <<heap, tasks>>
     ELSE IF inTeam
          THEN /\ UNCHANGED tasks
               /\ SetHeap([heap EXCEPT ![o].step = "IDLE"], sessions, tasks)
          ELSE /\ HasFreeTask
               /\ tasks' = Spawn([IdleTask EXCEPT !.pc = "add_find", !.u = u, !.sess = o,
                                                  !.text = name])
               /\ SetHeap(heap, sessions, tasks')
  /\ UNCHANGED <<db, clock, sessions, out, files, fixed>>

\* prisma.user.findUnique of the owner (line 2049).
AddFind(i) ==
  LET t == tasks[i] IN
  /\ t.pc = "add_find"
  /\ tasks' = [tasks EXCEPT ![i] = [t EXCEPT !.pc = "add_update",
                                                 !.user = OwnerFields(users[t.u])]]
  /\ SetHeap(heap, sessions, tasks')
  /\ UNCHANGED <<db, clock, sessions, out, files, fixed>>

\* A slip in the add-staff answer: the handler also resets the session of the account it
\* adds.
AddUpdateResetsStaff(i) ==
  LET t == tasks[i]
      v == UserByName(t.text)
      gone == IF v # 0 THEN ~users[v].exists ELSE FALSE
      h1 == IF gone THEN heap ELSE [heap EXCEPT ![t.sess].step = "IDLE"]
      h2 == IF v # 0 /\ ~gone
            THEN (IF sessions[v] # 0 THEN [h1 EXCEPT ![sessions[v]] = NewSession("IDLE")] ELSE h1)
            ELSE h1
  IN
  /\ t.pc = "add_update"
  /\ tasks' = Finish(i)
  /\ IF gone \/ ~t.user.exists THEN UNCHANGED users
     ELSE IF v # 0 THEN users' = [users EXCEPT ![v].teamOwnerId = t.user.id]
     ELSE /\ users[t.u].others < MaxOthers
          /\ users' = [users EXCEPT ![t.u].others = @ + 1]
  /\ SetHeap(h2, sessions, tasks')
  /\ UNCHANGED <<cases, nextCaseId, deleted, clock, sessions, out, files, fixed>>

\* prisma.user.update({ data: { teamOwnerId: owner?.id } }) and session.step = 'IDLE'
\* (lines 2050-2055); an undefined owner id leaves the row as it is, the update of a
\* missing row throws past the step assignment.
AddUpdate(i) ==
  LET t == tasks[i]
      v == UserByName(t.text)
      gone == IF v # 0 THEN ~users[v].exists ELSE FALSE
  IN
  /\ t.pc = "add_update"
  /\ tasks' = Finish(i)
  /\ IF gone \/ ~t.user.exists THEN UNCHANGED users
     ELSE IF v # 0 THEN users' = [users EXCEPT ![v].teamOwnerId = t.user.id]
     ELSE /\ users[t.u].others < MaxOthers
          /\ users' = [users EXCEPT ![t.u].others = @ + 1]
  /\ SetHeap(IF gone THEN heap ELSE [heap EXCEPT ![t.sess].step = "IDLE"], sessions, tasks')
  /\ UNCHANGED <<cases, nextCaseId, deleted, clock, sessions, out, files, fixed>>

\* ------------------------------------------------------------ /signup
AccountTypes == {"INDIVIDUAL", "FIRM", "BAR"}

\* The answers of the signup wizard.
Answers == {"Ada"}

\* /signup (lines 94-108): the session is replaced and the account types are offered.
Signup(u) ==
  LET r == Replace(sessions, heap, u, "SIGNUP_ACCOUNT_TYPE") IN
  /\ Ready(u, "signup")
  /\ sessions' = r.s
  /\ SetHeap(r.h, r.s, tasks)
  /\ offered' = Offer(u, {"acct"}, 0)
  /\ UNCHANGED <<db, clock, tasks, replies, files, fixed>>

\* The first step of the wizard of an account type (lines 126-135).
SignupFirst(accountType) ==
  CASE accountType = "INDIVIDUAL" -> "SIGNUP_NAME"
    [] accountType = "FIRM" -> "SIGNUP_FIRM_NAME"
    [] accountType = "BAR" -> "SIGNUP_BRANCH_NAME"

\* acct_(INDIVIDUAL|FIRM|BAR) up to its update (lines 116-120).
AcctType(u, accountType) ==
  /\ Ready(u, "signup")
  /\ Offered(u, "acct", 0)
  /\ HasFreeTask
  /\ tasks' = Spawn([IdleTask EXCEPT !.pc = "acct_type_update", !.u = u, !.text = accountType])
  /\ SetHeap(heap, sessions, tasks')
  /\ UNCHANGED <<db, clock, sessions, out, files, fixed>>

\* prisma.user.update({ data: { accountType } }) (lines 121-124); the update of a missing
\* row throws.
AcctTypeUpdate(i) ==
  LET t == tasks[i] IN
  /\ t.pc = "acct_type_update"
  /\ IF users[t.u].exists
     THEN /\ users' = [users EXCEPT ![t.u].accountType = t.text]
          /\ tasks' = [tasks EXCEPT ![i] = [t EXCEPT !.pc = "acct_type_sess"]]
     ELSE /\ tasks' = Finish(i)
          /\ UNCHANGED users
  /\ SetHeap(heap, sessions, tasks')
  /\ UNCHANGED <<cases, nextCaseId, deleted, clock, sessions, out, files, fixed>>

\* sessions[userId] = { step: <first step>, data: {} } (lines 126-135).
AcctTypeSess(i) ==
  LET t == tasks[i]
      r == Replace(sessions, heap, t.u, SignupFirst(t.text))
  IN
  /\ t.pc = "acct_type_sess"
  /\ tasks' = Finish(i)
  /\ sessions' = r.s
  /\ SetHeap(r.h, r.s, tasks')
  /\ UNCHANGED <<db, clock, out, files, fixed>>

\* The column that the answer of a step is written to (lines 1752-1778, 2060-2110).
SignupField ==
  [SIGNUP_FIRM_NAME |-> "firmName", SIGNUP_FIRM_STATE |-> "firmState",
   SIGNUP_BRANCH_NAME |-> "branchName", SIGNUP_NAME |-> "fullName",
   SIGNUP_EMAIL |-> "email", SIGNUP_PHONE |-> "phone", SIGNUP_ADDRESS |-> "address",
   SIGNUP_JOB |-> "jobPosition", SIGNUP_REG_NUMBER |-> "registrationNumber"]

\* session.step = ... after the update of a step (lines 1752-1778, 2060-2116).
SignupNext ==
  [SIGNUP_FIRM_NAME |-> "SIGNUP_FIRM_STATE", SIGNUP_FIRM_STATE |-> "SIGNUP_NAME",
   SIGNUP_BRANCH_NAME |-> "SIGNUP_NAME", SIGNUP_NAME |-> "SIGNUP_EMAIL",
   SIGNUP_EMAIL |-> "SIGNUP_PHONE", SIGNUP_PHONE |-> "SIGNUP_ADDRESS",
   SIGNUP_ADDRESS |-> "SIGNUP_JOB", SIGNUP_JOB |-> "SIGNUP_REG_NUMBER",
   SIGNUP_REG_NUMBER |-> "IDLE"]

\* A slip in the test of the account type: only firms wait for approval.
isFirmOnly(accountType) == accountType = "FIRM"

\* userReg?.accountType === 'FIRM' || userReg?.accountType === 'BAR' (line 2106)
isFirmOrBar(accountType) == accountType = "FIRM" \/ accountType = "BAR"

\* A text during a step of the signup wizard (lines 1752-1778, 2060-2104).
TextSignup(u, text) ==
  LET o == sessions[u] IN
  /\ Ready(u, "signup")
  /\ o # 0
  /\ heap[o].step \in DOMAIN SignupField
  /\ HasFreeTask
  /\ tasks' = Spawn([IdleTask EXCEPT
                       !.pc = IF heap[o].step = "SIGNUP_REG_NUMBER" THEN "su_find" ELSE "su_update",
                       !.u = u, !.sess = o, !.text = text, !.ret = heap[o].step])
  /\ SetHeap(heap, sessions, tasks')
  /\ UNCHANGED <<db, clock, sessions, out, files, fixed>>

\* SIGNUP_REG_NUMBER: prisma.user.findUnique (line 2105).
SuFind(i) ==
  LET t == tasks[i] IN
  /\ t.pc = "su_find"
  /\ tasks' = [tasks EXCEPT ![i] = [t EXCEPT !.pc = "su_update",
                                             !.user = [NoUser EXCEPT !.accountType = users[t.u].accountType]]]
  /\ SetHeap(heap, sessions, tasks')
  /\ UNCHANGED <<db, clock, sessions, out, files, fixed>>

\* A slip in the order: the step is set whether or not the update went through.
SuUpdateAdvances(i) ==
  LET t == tasks[i] IN
  /\ t.pc = "su_update"
  /\ users' = IF users[t.u].exists
              THEN [users EXCEPT ![t.u].profile[SignupField[t.ret]] = t.text]
              ELSE users
  /\ tasks' = Finish(i)
  /\ SetHeap([heap EXCEPT ![t.sess].step = SignupNext[t.ret]], sessions, tasks')
  /\ UNCHANGED <<cases, nextCaseId, deleted, clock, sessions, out, files, fixed>>

\* prisma.user.update of the step's column, and of approvalStatus at the last step
\* (lines 2108-2114); the update of a missing row throws.
SuUpdate(i) ==
  LET t == tasks[i]
      row == [users[t.u] EXCEPT !.profile[SignupField[t.ret]] = t.text]
  IN
  /\ t.pc = "su_update"
  /\ IF users[t.u].exists
     THEN /\ users' = [users EXCEPT ![t.u] =
                         IF t.ret = "SIGNUP_REG_NUMBER"
                         THEN [row EXCEPT !.approvalStatus =
                                 IF isFirmOrBar(t.user.accountType) THEN "PENDING" ELSE "APPROVED"]
                         ELSE row]
          /\ tasks' = [tasks EXCEPT ![i] = [t EXCEPT !.pc = "su_step"]]
     ELSE /\ tasks' = Finish(i)
          /\ UNCHANGED users
  /\ SetHeap(heap, sessions, tasks')
  /\ UNCHANGED <<cases, nextCaseId, deleted, clock, sessions, out, files, fixed>>

\* session.step = <next step>, on the session object read at the start of the handler.
SuStep(i) ==
  LET t == tasks[i] IN
  /\ t.pc = "su_step"
  /\ tasks' = Finish(i)
  /\ SetHeap([heap EXCEPT ![t.sess].step = SignupNext[t.ret]], sessions, tasks')
  /\ UNCHANGED <<db, clock, sessions, out, files, fixed>>

\* ------------------------------------------------------------ /start, /approve, /ban
\* An event that the middleware stops is answered with a notice (lines 79-86).
Gated(u) ==
  /\ u \in env.actors
  /\ IF env.overlap THEN TRUE ELSE Quiet
  /\ Blocked(u)
  /\ Say(u, Reply(IF users[u].isBanned THEN "suspended" ELSE "pending", 0, 0, ""))
  /\ UNCHANGED <<db, clock, store, tasks, offered, files, fixed>>

\* The exact command /start: the middleware stops it for a banned account only
\* (lines 79-85).  The handler begins with the upsert (lines 725-734).
StartCmd(u) ==
  /\ u \in env.actors
  /\ "start" \in env.flows
  /\ IF env.overlap THEN TRUE ELSE Quiet
  /\ ~(users[u].exists /\ users[u].isBanned)
  /\ HasFreeTask
  /\ tasks' = Spawn([IdleTask EXCEPT !.pc = "start_upsert", !.u = u])
  /\ SetHeap(heap, sessions, tasks')
  /\ UNCHANGED <<db, clock, sessions, out, files, fixed>>

\* prisma.user.upsert: a missing row is created on the Free tier (lines 725-734).
StartUpsert(i) ==
  LET t == tasks[i]
      row == IF users[t.u].exists THEN users[t.u]
             ELSE [NoUser EXCEPT !.exists = TRUE, !.id = t.u, !.subscription = "FREE"]
  IN
  /\ t.pc = "start_upsert"
  /\ users' = [users EXCEPT ![t.u] = row]
  /\ tasks' = [tasks EXCEPT ![i] = [t EXCEPT !.pc = "start_sess",
                                             !.user = [NoUser EXCEPT !.firmCode = row.firmCode]]]
  /\ SetHeap(heap, sessions, tasks')
  /\ UNCHANGED <<cases, nextCaseId, deleted, clock, sessions, out, files, fixed>>

\* if (!user.firmCode) sessions[id] = { step: 'WAITING_FIRM_CODE', data: {} }
\* (lines 752-756).
StartSess(i) ==
  LET t == tasks[i]
      r == Replace(sessions, heap, t.u, "WAITING_FIRM_CODE")
  IN
  /\ t.pc = "start_sess"
  /\ tasks' = Finish(i)
  /\ IF t.user.firmCode = ""
     THEN sessions' = r.s /\ SetHeap(r.h, r.s, tasks')
     ELSE UNCHANGED sessions /\ SetHeap(heap, sessions, tasks')
  /\ UNCHANGED <<db, clock, out, files, fixed>>

\* An administrator is an account outside Users; its commands pass the middleware.
AdminReady ==
  /\ "admin" \in env.flows
  /\ IF env.overlap THEN TRUE ELSE Quiet

\* /approve <telegram_id> (lines 405-426); the update of a missing row is caught.
Approve(u) ==
  /\ AdminReady
  /\ users' = IF users[u].exists THEN [users EXCEPT ![u].approvalStatus = "APPROVED"]
              ELSE users
  /\ UNCHANGED <<cases, nextCaseId, deleted, clock, store, tasks, out, files, fixed>>

\* /ban @username toggles isBanned of the account found (lines 493-508).
Ban(name) ==
  LET v == UserByName(name) IN
  /\ AdminReady
  /\ users' = IF v # 0 /\ users[v].exists THEN [users EXCEPT ![v].isBanned = ~@]
              ELSE users
  /\ UNCHANGED <<cases, nextCaseId, deleted, clock, store, tasks, out, files, fixed>>

\* ------------------------------------------------------------ /verify
\* Math.floor(10000000 + Math.random() * 90000000).toString() (line 390): the least and
\* the greatest code.
Codes == {"10000000", "99999999"}

\* The texts typed during WAITING_VERIFY: a code, a code without its last digit, a code
\* followed by a space.
VerifyTexts == Codes \cup {"1000000", "10000000 "}

\* The codes sent to an account so far, numbered in the order of sending.
Issued(u) == {e \in offered : e.u = u /\ e.kind \in Codes}

\* /verify up to prisma.user.findUnique (lines 377-379).
Verify(u) ==
  /\ Ready(u, "verify")
  /\ HasFreeTask
  /\ tasks' = Spawn([IdleTask EXCEPT !.pc = "verify_issue", !.u = u,
                                     !.user = [NoUser EXCEPT !.exists = users[u].exists,
                                                             !.isVerified = users[u].isVerified]])
  /\ SetHeap(heap, sessions, tasks')
  /\ UNCHANGED <<db, clock, sessions, out, files, fixed>>

\* A missing or verified account is answered; else a code is drawn, stored in the
\* session and sent (lines 381-398).
VerifyIssue(i, code) ==
  LET t == tasks[i]
      e == Ensure(sessions, heap, t.u)
      o == e.s[t.u]
      h1 == [e.h EXCEPT ![o].data.verificationCode = code, ![o].step = "WAITING_VERIFY"]
  IN
  /\ t.pc = "verify_issue"
  /\ tasks' = Finish(i)
  /\ IF ~t.user.exists \/ t.user.isVerified
     THEN /\ UNCHANGED <<sessions, offered>>
          /\ SetHeap(heap, sessions, tasks')
     ELSE /\ Cardinality(Issued(t.u)) < MaxCodes
          /\ sessions' = e.s
          /\ SetHeap(h1, e.s, tasks')
          /\ offered' = offered \cup {[u |-> t.u, kind |-> code,
                                       id |-> Cardinality(Issued(t.u)) + 1]}
  /\ UNCHANGED <<db, clock, replies, files, fixed>>

\* A slip in the comparison: a text that begins with the code is accepted.
CodeMatchesStart(text, expectedCode) == StartsWith(text, expectedCode)

\* text === expectedCode (line 2129)
CodeMatches(text, expectedCode) == text = expectedCode

\* WAITING_VERIFY (lines 2127-2140): a text that is not the code is answered.
TextVerify(u, text) ==
  LET o == sessions[u] IN
  /\ Ready(u, "verify")
  /\ o # 0
  /\ heap[o].step = "WAITING_VERIFY"
  /\ IF CodeMatches(text, heap[o].data.verificationCode)
     THEN /\ HasFreeTask
          /\ tasks' = Spawn([IdleTask EXCEPT !.pc = "verify_update", !.u = u, !.sess = o,
                                             !.text = text])
          /\ UNCHANGED replies
     ELSE /\ UNCHANGED tasks
          /\ Say(u, Reply("invalid", 0, 0, text))
  /\ SetHeap(heap, sessions, tasks')
  /\ UNCHANGED <<db, clock, sessions, offered, files, fixed>>

\* prisma.user.update({ data: { isVerified: true } }) (lines 2130-2133); the update of a
\* missing row throws.
VerifyUpdate(i) ==
  LET t == tasks[i] IN
  /\ t.pc = "verify_update"
  /\ IF users[t.u].exists
     THEN /\ users' = [users EXCEPT ![t.u].isVerified = TRUE]
          /\ tasks' = [tasks EXCEPT ![i] = [t EXCEPT !.pc = "verify_step"]]
     ELSE /\ tasks' = Finish(i)
          /\ UNCHANGED users
  /\ SetHeap(heap, sessions, tasks')
  /\ UNCHANGED <<cases, nextCaseId, deleted, clock, sessions, out, files, fixed>>

\* session.step = 'IDLE'; session.data.verificationCode = undefined (lines 2134-2135).
VerifyStep(i) ==
  LET t == tasks[i] IN
  /\ t.pc = "verify_step"
  /\ tasks' = Finish(i)
  /\ SetHeap([heap EXCEPT ![t.sess].step = "IDLE", ![t.sess].data.verificationCode = ""],
             sessions, tasks')
  /\ UNCHANGED <<db, clock, sessions, out, files, fixed>>

\* ------------------------------------------------------------ specifications
Next ==
  \/ Tick
  \/ \E u \in Users : Newbrief(u)
  \/ \E u \in Users, text \in IdleTexts : TextIdle(u, text)
  \/ \E u \in Users, text \in Texts : TextIntake(u, text)
  \/ \E u \in Users, text \in Texts : TextFacts(u, text)
  \/ \E i \in TaskIds : PciBegin(i)
  \/ \E i \in TaskIds : PciFind(i)
  \/ \E i \in TaskIds : PciReset(i)
  \/ \E i \in TaskIds : PciCreate(i)
  \/ \E i \in TaskIds : PciUsage(i)
  \/ \E i \in TaskIds : PciSess(i)
  \/ \E u \in Users, mime \in Mimes : Upload(u, mime)
  \/ \E i \in TaskIds : DocRoute(i)
  \/ \E i \in TaskIds : DocClear(i)
  \/ \E u \in Users : StageNew(u)
  \/ \E u \in Users : StageExisting(u)
  \/ \E u \in Users, id \in 1..MaxCases : StageAssoc(u, id)
  \/ \E i \in TaskIds : AssocFind(i)
  \/ \E i \in TaskIds : AssocUpdate(i)
  \/ \E i \in TaskIds : AssocDone(i)
  \/ \E u \in Users : StageAnalyze(u)
  \/ \E i \in TaskIds : AnCall(i)
  \/ \E i \in TaskIds : AnClear(i)
  \/ \E u \in Users : StageSave(u)
  \/ \E i \in TaskIds : SaveFind(i)
  \/ \E i \in TaskIds : SaveCreate(i)
  \/ \E i \in TaskIds : SaveDone(i)
  \/ \E u \in Users : StageCancel(u)
  \/ \E u \in Users, input \in Texts : Search(u, input)
  \/ \E u \in Users : SearchRegion(u)
  \/ \E i \in TaskIds : SearchDone(i)
  \/ \E u \in Users : History(u)
  \/ \E u \in Users, id \in 1..MaxCases : ViewCase(u, id)
  \/ \E u \in Users, id \in 1..MaxCases : RunScenario(u, id)
  \/ \E u \in Users, id \in 1..MaxCases : DeleteCase(u, id)
  \/ \E u \in Users, id \in 1..MaxCases : ConfirmDelete(u, id)
  \/ \E i \in TaskIds : DelRefresh(i)
  \/ \E u \in Users : DeleteAccount(u)
  \/ \E u \in Users : ConfirmDeleteAccount(u)
  \/ \E i \in TaskIds : AcctCases(i)
  \/ \E i \in TaskIds : AcctUser(i)
  \/ \E i \in TaskIds : AcctSess(i)
  \/ \E u \in Users : QaDone(u)
  \/ \E u \in Users, id \in 1..MaxCases : ScenarioCase(u, id)
  \/ \E i \in TaskIds : ScenInit(i)
  \/ \E u \in Users, text \in Texts : TextScenario(u, text)
  \/ \E u \in Users, text \in Texts : TextScenarioQ5(u, text)
  \/ \E i \in TaskIds : SimRun(i)
  \/ \E i \in TaskIds : SimSave(i)

\* Sequential events: the next one arrives when the handler of the last has finished.
Spec == Init /\ [][Next]_vars

\* The upload events and the steps of their handlers.
NextConc ==
  \/ \E i \in TaskIds : PciBegin(i)
  \/ \E i \in TaskIds : PciFind(i)
  \/ \E i \in TaskIds : PciCreate(i)
  \/ \E i \in TaskIds : PciUsage(i)
  \/ \E i \in TaskIds : PciSess(i)
  \/ \E u \in Users, mime \in Mimes : Upload(u, mime)
  \/ \E u \in Users : StageNew(u)
  \/ \E u \in Users : StageExisting(u)
  \/ \E u \in Users, id \in 1..MaxCases : StageAssoc(u, id)
  \/ \E i \in TaskIds : AssocFind(i)
  \/ \E i \in TaskIds : AssocUpdate(i)
  \/ \E i \in TaskIds : AssocDone(i)
  \/ \E u \in Users : StageAnalyze(u)
  \/ \E i \in TaskIds : AnCall(i)
  \/ \E i \in TaskIds : AnClear(i)
  \/ \E u \in Users : StageSave(u)
  \/ \E i \in TaskIds : SaveFind(i)
  \/ \E i \in TaskIds : SaveCreate(i)
  \/ \E i \in TaskIds : SaveDone(i)
  \/ \E u \in Users : StageCancel(u)

\* Overlapping events: one arrives while handlers are suspended at an await.
SpecConc == InitConc /\ [][NextConc]_vars

\* A run follows the ask-question loop or the export buttons of the cases it creates.
AskScenarios == {{"intake", "ask", "wizard", "profile"}, {"intake", "export"}}

InitAsk == Start /\ \E u \in Users, fl \in AskScenarios : Env({u}, FALSE, fl)

NextAsk ==
  \/ \E u \in Users : Newbrief(u)
  \/ \E u \in Users : Profile(u)
  \/ \E u \in Users, text \in IdleTexts : TextIdle(u, text)
  \/ \E u \in Users, text \in Texts : TextIntake(u, text)
  \/ \E u \in Users, text \in Texts : TextFacts(u, text)
  \/ \E i \in TaskIds : PciBegin(i)
  \/ \E i \in TaskIds : PciFind(i)
  \/ \E i \in TaskIds : PciCreate(i)
  \/ \E i \in TaskIds : PciUsage(i)
  \/ \E i \in TaskIds : PciSess(i)
  \/ \E u \in Users, id \in 1..MaxCases : Ask(u, id)
  \/ \E u \in Users, text \in Questions : TextQuestion(u, text)
  \/ \E i \in TaskIds : QaAnswer(i)
  \/ \E i \in TaskIds : QaFind(i)
  \/ \E i \in TaskIds : QaUpdate(i)
  \/ \E u \in Users : QaDone(u)
  \/ \E u \in Users, id \in 1..MaxCases : ExportCase(u, id)
  \/ \E u \in Users, extent \in Extents, id \in 1..MaxCases : ExpExtent(u, extent, id)
  \/ \E u \in Users, format \in Formats, extent \in Extents, id \in 1..MaxCases :
        ExportFile(u, format, extent, id)

\* The guided intake and the ask-question loop of one account, one event after another.
SpecAsk == InitAsk /\ [][NextAsk]_vars

\* The accounts of the team runs: account 1 is in no team, account 2 owns a team.
TeamUser(u, plan, n) ==
  IF u = 1 THEN InitUser(1)
  ELSE [InitUser(2) EXCEPT !.subscription = plan, !.monthlyUsage = 0, !.others = n,
                           !.accountType = IF plan = "FREE" THEN "INDIVIDUAL" ELSE "FIRM"]

TeamStarts == {<<"FREE", 0>>, <<"FIRM", StaffFirm - 1>>}

\* The team flows make no call of the AI provider.
InitTeam ==
  /\ Blank
  /\ provider = "none"
  /\ \E st \in TeamStarts : users = [u \in Users |-> TeamUser(u, st[1], st[2])]
  /\ \E ov \in BOOLEAN : Env(Users, ov, {"team"})

NextTeam ==
  \/ \E u \in Users, code \in FirmCodes : StartInvite(u, code)
  \/ \E u \in Users, id \in Users : ConfirmJoin(u, id)
  \/ \E i \in TaskIds : JoinUpdate(i)
  \/ \E u \in Users : Addstaff(u)
  \/ \E u \in Users, name \in Usernames : TextAddstaff(u, name)
  \/ \E i \in TaskIds : AddFind(i)
  \/ \E i \in TaskIds : AddUpdate(i)

\* The invite link, the join confirmation and the add-staff flow of two accounts.
SpecTeam == InitTeam /\ [][NextTeam]_vars

\* The runs of the account flows: one account sends events, one after the other.
AcctScenarios == {{"signup", "start", "admin"}, {"intake", "upload", "admin"},
                  {"verify", "start", "upload"}}

InitAcct ==
  /\ Start
  /\ provider = "openai"
  /\ \E u \in Users, fl \in AcctScenarios : env = [actors |-> {u}, overlap |-> FALSE,
                                                    ai |-> "ok", flows |-> fl]

NextAcct ==
  \/ \E u \in Users : Signup(u)
  \/ \E u \in Users, accountType \in AccountTypes : AcctType(u, accountType)
  \/ \E i \in TaskIds : AcctTypeUpdate(i)
  \/ \E i \in TaskIds : AcctTypeSess(i)
  \/ \E u \in Users, text \in Answers : TextSignup(u, text)
  \/ \E i \in TaskIds : SuFind(i)
  \/ \E i \in TaskIds : SuUpdate(i)
  \/ \E i \in TaskIds : SuStep(i)
  \/ \E u \in Users : Verify(u)
  \/ \E i \in TaskIds, code \in Codes : VerifyIssue(i, code)
  \/ \E u \in Users, text \in VerifyTexts : TextVerify(u, text)
  \/ \E i \in TaskIds : VerifyUpdate(i)
  \/ \E i \in TaskIds : VerifyStep(i)
  \/ \E u \in Users : Gated(u)
  \/ \E u \in Users : StartCmd(u)
  \/ \E i \in TaskIds : StartUpsert(i)
  \/ \E i \in TaskIds : StartSess(i)
  \/ \E u \in Users : Approve(u)
  \/ \E name \in Usernames : Ban(name)
  \/ \E u \in Users : Newbrief(u)
  \/ \E u \in Users, text \in IdleTexts : TextIdle(u, text)
  \/ \E u \in Users, text \in Texts : TextIntake(u, text)
  \/ \E u \in Users, text \in Texts : TextFacts(u, text)
  \/ \E i \in TaskIds : PciBegin(i)
  \/ \E i \in TaskIds : PciFind(i)
  \/ \E i \in TaskIds : PciCreate(i)
  \/ \E i \in TaskIds : PciUsage(i)
  \/ \E i \in TaskIds : PciSess(i)
  \/ \E u \in Users, mime \in Mimes : Upload(u, mime)
  \/ \E i \in TaskIds : DocRoute(i)
  \/ \E i \in TaskIds : DocClear(i)
  \/ \E u \in Users : StageSave(u)
  \/ \E i \in TaskIds : SaveFind(i)
  \/ \E i \in TaskIds : SaveCreate(i)
  \/ \E i \in TaskIds : SaveDone(i)
  \/ \E u \in Users : StageCancel(u)

SpecAcct == InitAcct /\ [][NextAcct]_vars

\* ------------------------------------------------------------ the claims
PciPcs == {"pci_find", "pci_reset", "pci_create", "pci_usage", "pci_sess"}

\* The monthly limit of the tier of account u.
TierLimit(u) == PLAN_LIMITS[users[u].subscription]

\* C1, the usage check of a run in the calendar month of the start, for an account
\* with tier limit L: with usage below L the run is allowed, with usage L it answers
\* QuotaExceeded with limit L and currentUsage L, returns to its caller without
\* creating a Case row and leaves the stored usage as it is.
C1_Check ==
  (ticks = 0 /\ ticks' = 0) =>
    \A i \in TaskIds :
      LET t == tasks[i]
          L == TierLimit(t.u)
      IN (t.pc = "pci_find" /\ tasks'[i] # t /\ users[t.u].exists) =>
           IF users[t.u].monthlyUsage < L
           THEN tasks'[i].pc = "pci_create"
           ELSE /\ replies'[t.u] = Reply("quota_exceeded", L, L, "")
                /\ tasks'[i].pc \notin CreatorPcs \cup PciPcs
                /\ cases' = cases
                /\ users' = users

\* C1, the stored usage in the calendar month of the start: it changes only by one,
\* from below L, in the step after the run has created its Case row.
C1_Count ==
  (ticks = 0 /\ ticks' = 0) =>
    \A u \in Users :
      (users[u].exists /\ users'[u].exists /\ users'[u].monthlyUsage # users[u].monthlyUsage) =>
        /\ users'[u].monthlyUsage = users[u].monthlyUsage + 1
        /\ users[u].monthlyUsage < TierLimit(u)
        /\ \E i \in TaskIds : /\ tasks[i].pc = "pci_usage" /\ tasks[i].u = u
                               /\ tasks[i].caseId \in DOMAIN cases

\* C1: within one calendar month the sequential Case Assembly runs of an account with
\* tier limit L are allowed while the usage is below L, each created case raising the
\* usage by one up to L, and every later run answers QuotaExceeded (limit L,
\* currentUsage L) without a Case row and without a change of the usage.
C1_QuotaWithinMonth ==
  /\ [](ticks = 0 => \A u \in Users : users[u].exists => users[u].monthlyUsage <= TierLimit(u))
  /\ [][C1_Check /\ C1_Count]_vars

\* C1: a Free account has created two cases and its third run was refused.
C1_Witness ==
  /\ ticks = 0
  /\ users[1].monthlyUsage = 2
  /\ Cardinality(UserCases(1)) = 2
  /\ replies[1] = Reply("quota_exceeded", 2, 2, "")

\* C2: a run that finds the stored reset month different from the current month and
\* creates its case leaves the stored usage at exactly 1 and the reset date at now.
C2_RolloverLeavesOne ==
  \A i \in TaskIds :
    LET t == tasks[i] IN
    (t.pc = "pci_sess" /\ t.saved /\ MonthPassed(t.now, t.user.usageResetDate)
       /\ users[t.u].exists) =>
      /\ users[t.u].monthlyUsage = 1
      /\ users[t.u].usageResetDate = t.now

\* The messages the extractor returns instead of the text of the document.
ExtractionFailure(facts) ==
  \/ StartsWith(facts, "Error extracting text")
  \/ StartsWith(facts, "[System] Unsupported file type")
  \/ facts = "Local file path extraction not supported."

\* C3: a run whose file input could not be extracted (download error, unsupported
\* media type, unsupported locator, parse error) creates no Case row and does not
\* increment the usage.
C3_ExtractionFailureStops ==
  \A i \in TaskIds :
    LET t == tasks[i] IN
    (t.pc \in PciPcs /\ t.input.type = "file" /\ ExtractionFailure(t.facts)) =>
      t.caseId = 0 /\ ~t.saved

\* C4: when the AI analysis fails, because the provider call fails or because no
\* provider is configured, the run is not dropped and every analysed Case row carries
\* the category Unknown and the score 50.
C4_AnalysisFailureStillSaves ==
  (provider = "none" \/ env.ai = "call_fails") =>
    /\ \A u \in Users : replies[u].kind # "analysis_failed"
    /\ \A c \in DOMAIN cases :
         cases[c].analysis # "" =>
           /\ cases[c].title = "Unknown Case"
           /\ cases[c].analysis = "CASE BRIEF: Unknown Viability Score: 50/100 Prediction: Error"

\* The reference codes of the first, second, ... case of an account.
ExpectedCodes(firmCode) ==
  IF firmCode = "ABC" THEN <<"ABC-001", "ABC-002", "ABC-003", "ABC-004", "ABC-005">>
  ELSE <<"CASE-1", "CASE-2", "CASE-3", "CASE-4", "CASE-5">>

\* The rows of the owner of row c that were created up to row c.
RankOf(c) == Cardinality({d \in DOMAIN cases : d <= c /\ cases[d].userId = cases[c].userId})

\* C5: with no deletion so far, the k-th case of an account carries PREFIX-00k when the
\* account has an organization prefix and CASE-k when it has none.
C5_KthCode ==
  (deleted = {} /\ \A u \in Users : users[u].exists) =>
    \A c \in DOMAIN cases :
      cases[c].refCode = ExpectedCodes(users[cases[c].userId].firmCode)[RankOf(c)]

\* C5: the third case of the account with the prefix ABC is stored and nothing was deleted.
C5_Witness ==
  /\ deleted = {}
  /\ \E c \in DOMAIN cases : cases[c].refCode = "ABC-003" /\ RankOf(c) = 3

\* C6: while the accounts exist, no two Case rows of one account carry the same
\* reference code, whatever the sequence of creations and deletions.
C6_CodesUnique ==
  (\A u \in Users : users[u].exists) =>
    \A c, d \in DOMAIN cases :
      (c # d /\ cases[c].userId = cases[d].userId) => cases[c].refCode # cases[d].refCode

\* C7: an uploaded input that was overwritten in the staging slot before it was taken
\* is never delivered to a consumer.
C7_OverwrittenNeverDelivered == \A f \in lost : taken[f] = 0

\* C7: the first upload was overwritten by the second and the second was delivered.
C7_Witness == 1 \in lost /\ taken[1] = 0 /\ taken[2] = 1

\* C8: a staged input is handed to a consumer at most once, also when the button is
\* pressed again while the first consumption is suspended.
C8_ConsumedOnce == \A f \in FileIds : taken[f] <= 1

WizardSteps == <<"SCENARIO_Q1", "SCENARIO_Q2", "SCENARIO_Q3", "SCENARIO_Q4", "SCENARIO_Q5">>

WizardKeys == <<"outcome", "evidence", "opposing", "jurisdiction", "caveats">>

AllFive(inputs) == inputs.defined /\ \A j \in 1..5 : inputs[WizardKeys[j]] # ""

\* C9, the states: a session at question k holds exactly the first k-1 answers, each
\* under its key; a simulation runs with all five answers and an idle step.
C9_State ==
  /\ \A o \in ObjIds : \A k \in 1..5 :
       heap[o].step = WizardSteps[k] =>
         /\ heap[o].data.scenarioInputs.defined
         /\ \A j \in 1..5 : (heap[o].data.scenarioInputs[WizardKeys[j]] # "") <=> (j < k)
  /\ \A i \in TaskIds :
       /\ tasks[i].pc \in {"sim_run", "sim_save"} => heap[tasks[i].sess].step = "IDLE"
       /\ tasks[i].pc = "sim_run" => AllFive(heap[tasks[i].sess].data.scenarioInputs)
       /\ tasks[i].pc = "sim_save" => AllFive(tasks[i].inputs)

\* C9, the steps: a session at question k either records the answer under the k-th key
\* and moves to question k+1 (to idle after the fifth), or does not move to a later
\* question; a simulation starts only in the step that answers the fifth question.
C9_Step ==
  /\ \A u \in Users : \A k \in 1..5 :
       LET o == sessions[u] IN
       (o # 0 /\ sessions'[u] = o /\ heap[o].step = WizardSteps[k] /\ heap'[o] # heap[o]) =>
         \/ /\ heap'[o].step = (IF k < 5 THEN WizardSteps[k + 1] ELSE "IDLE")
            /\ \E text \in Texts :
                 heap'[o].data.scenarioInputs =
                   [heap[o].data.scenarioInputs EXCEPT ![WizardKeys[k]] = text]
         \/ heap'[o].step \notin {WizardSteps[j] : j \in 2..5}
  /\ \A i \in TaskIds :
       (tasks'[i].pc = "sim_run" /\ tasks[i].pc # "sim_run") =>
         /\ heap[tasks'[i].sess].step = "SCENARIO_Q5"
         /\ heap'[tasks'[i].sess].step = "IDLE"

\* C9: the Scenario Wizard records the k-th answer under the k-th key (outcome,
\* evidence, opposing, jurisdiction, caveats), invokes the simulation only after the
\* fifth answer, with all five answers, and leaves the step idle.
C9_WizardOrder == []C9_State /\ [][C9_Step]_vars

\* C9: a simulation has been invoked with five answers.
C9_Witness ==
  \E i \in TaskIds : /\ tasks[i].pc = "sim_save"
                      /\ AllFive(tasks[i].inputs)
                      /\ heap[tasks[i].sess].step = "IDLE"

\* The step is the confirm step of an account that was sent the confirm button of case c.
ConfirmStepFor(c) ==
  \E u \in Users, i \in TaskIds :
    /\ [u |-> u, kind |-> "confirm_delete", id |-> c] \in offered
    /\ tasks[i].pc = "idle"
    /\ tasks'[i].pc = "del_refresh" /\ tasks'[i].u = u /\ tasks'[i].caseId = c

\* The step is the removal of the cases of an account whose deletion was confirmed.
AccountStepFor(c) ==
  \E i \in TaskIds : /\ tasks[i].pc = "acct_cases" /\ tasks'[i].pc = "acct_user"
                      /\ cases[c].userId = tasks[i].user.id

\* C10 as stated: a Case row is removed only by the confirm step that follows a delete
\* request for that same case.
C10_OnlyByConfirm ==
  [][\A c \in DOMAIN cases : c \notin DOMAIN cases' => ConfirmStepFor(c)]_vars

\* C10: a Case row is removed only by the confirm step that follows a delete request
\* for that same case, or by the confirmed deletion of the account that owns it; the
\* delete request alone and the cancellation leave the row in place.
C10_OnlyByConfirmOrAccount ==
  [][\A c \in DOMAIN cases : c \notin DOMAIN cases' => ConfirmStepFor(c) \/ AccountStepFor(c)]_vars

\* C10: a case was removed after its confirm button was sent, another case of the
\* account, requested as well, is still stored.
C10_Witness ==
  \E u \in Users, c, d \in 1..MaxCases :
    /\ [u |-> u, kind |-> "confirm_delete", id |-> c] \in offered
    /\ [id |-> c, userId |-> u] \in deleted
    /\ [u |-> u, kind |-> "confirm_delete", id |-> d] \in offered
    /\ d \in DOMAIN cases

\* C11: a join confirmation for an owner whose member count equals the staff limit of
\* the owner's tier is rejected: no User row changes, so the member count, and the team
\* owner, prefix, account type and tier of the joining account stay as they are.
C11_FullTeamRejects ==
  [][\A i \in TaskIds :
       (/\ tasks[i].pc = "join_update" /\ tasks'[i].pc = "idle"
        /\ tasks[i].user.exists
        /\ tasks[i].count = staffLimits[tasks[i].user.subscription])
         => users' = users]_vars

\* C12: the number of accounts whose team owner is O never exceeds the staff limit of
\* O's tier (Free 0, Pro 0, Firm 15, Bar 100).
C12_TeamCapped ==
  \A o \in Users :
    users[o].exists => MemberCount(users[o].id) <= staffLimits[users[o].subscription]

\* The question/answer pair of a handler of the ask-question loop.
QaPair(t) == <<[role |-> "user", content |-> t.text], [role |-> "bot", content |-> t.answer]>>

\* C13, the steps of a question: the answer is produced and recorded after the question,
\* the pair is appended to the log of the focused case, and the session stays in the
\* ask-question step; the step is left only by an event that is not a question.
C13_Step ==
  /\ \A i \in TaskIds :
       LET t == tasks[i]
           d == heap[t.sess].data
       IN
       /\ (t.pc = "qa_answer" /\ tasks'[i] # t) =>
            /\ \E a \in {askAI(provider, env.ai, t.text)} :
                 /\ a # ""
                 /\ heap'[t.sess].data.conversationHistory =
                      d.conversationHistory \o <<[role |-> "user", content |-> t.text],
                                                 [role |-> "bot", content |-> a]>>
            /\ heap'[t.sess].step = "WAITING_QUESTION"
            /\ d.currentCaseId \in DOMAIN cases =>
                 tasks'[i].pc = "qa_find" /\ tasks'[i].caseId = d.currentCaseId
       /\ (t.pc = "qa_find" /\ tasks'[i] # t) => tasks'[i].pc = "qa_update"
       /\ (t.pc = "qa_update" /\ tasks'[i] # t /\ t.caseId \in DOMAIN cases) =>
            /\ t.caseId \in DOMAIN cases'
            /\ cases'[t.caseId].qaHistory = cases[t.caseId].qaHistory \o QaPair(t)
            /\ \A c \in DOMAIN cases \ {t.caseId} : c \in DOMAIN cases' /\ cases'[c] = cases[c]
            /\ heap'[t.sess].step = "WAITING_QUESTION"
  /\ \A u \in Users :
       (/\ sessions[u] # 0 /\ sessions'[u] = sessions[u]
        /\ heap[sessions[u]].step = "WAITING_QUESTION"
        /\ heap'[sessions[u]].step # "WAITING_QUESTION")
         => tasks' = tasks /\ Quiet

\* C13: in the ask-question loop every free-text message produces an answer and appends
\* its question/answer pair, in arrival order, to the persisted log of the focused case
\* (the case the session points to), and the session step stays the ask-question step
\* until the user ends the loop.
C13_AskLoop ==
  /\ [](\A i \in TaskIds : tasks[i].pc \in {"qa_answer", "qa_find", "qa_update"} =>
                             heap[tasks[i].sess].step = "WAITING_QUESTION")
  /\ [][C13_Step]_vars

\* C13: two questions were asked, q2 before q1; the log of the case holds both pairs in
\* that order and the session is still in the ask-question step.
C13_Witness ==
  \E u \in Users, c \in DOMAIN cases :
    /\ Quiet
    /\ sessions[u] # 0
    /\ Sess(u).step = "WAITING_QUESTION"
    /\ Sess(u).data.currentCaseId = c
    /\ cases[c].qaHistory = <<[role |-> "user", content |-> "q2"],
                              [role |-> "bot", content |-> "answer to q2"],
                              [role |-> "user", content |-> "q1"],
                              [role |-> "bot", content |-> "answer to q1"]>>

\* C14: a text sent by an account with no session, or with a session at the idle step,
\* is always answered with the guidance, and the step that handles it changes neither
\* the session, its answers and staging, nor the stored accounts and cases.
C14_Frame ==
  \A u \in Users :
    (replies'[u] # replies[u] /\ replies'[u].kind \in {"guidance", "ignored"})
      => UNCHANGED <<db, store, files>>

C14_IdleTextGuided ==
  /\ [](\A u \in Users : replies[u].kind # "ignored")
  /\ [][C14_Frame]_vars

\* The six steps common to every account type, and the sequence of each type.
SixSteps == <<"SIGNUP_NAME", "SIGNUP_EMAIL", "SIGNUP_PHONE", "SIGNUP_ADDRESS", "SIGNUP_JOB",
              "SIGNUP_REG_NUMBER">>

SignupSeq(accountType) ==
  CASE accountType = "INDIVIDUAL" -> SixSteps
    [] accountType = "FIRM" -> <<"SIGNUP_FIRM_NAME", "SIGNUP_FIRM_STATE">> \o SixSteps
    [] accountType = "BAR" -> <<"SIGNUP_BRANCH_NAME">> \o SixSteps

C15_Step(u) ==
  LET T == users[u].accountType
      seq == SignupSeq(T) \o <<"IDLE">>
  IN
  \A i \in TaskIds :
    /\ (tasks[i].pc = "acct_type_sess" /\ tasks[i].u = u /\ tasks'[i].pc = "idle")
         => heap'[sessions'[u]].step = seq[1]
    /\ (tasks[i].pc = "su_step" /\ tasks[i].u = u /\ tasks'[i].pc = "idle")
         => /\ \E k \in 1..(Len(seq) - 1) :
                 Sess(u).step = seq[k] /\ heap'[sessions'[u]].step = seq[k + 1]
            /\ Sess(u).step = "SIGNUP_REG_NUMBER"
                 => users'[u].approvalStatus =
                      IF T = "INDIVIDUAL" THEN "APPROVED" ELSE "PENDING"

\* C15: once an account type is chosen the wizard starts at the first step of that type,
\* every answered text moves the session to the next step of the type's sequence, and the
\* answer of the registration number leaves the session idle with approval status
\* APPROVED for an individual and PENDING for a firm or a bar association.
C15_SignupOrder == [][\A u \in Users : C15_Step(u)]_vars

\* A bar association has answered all seven steps and waits for approval.
C15_Witness ==
  \E u \in Users :
    /\ users[u].accountType = "BAR"
    /\ users[u].approvalStatus = "PENDING"
    /\ users[u].profile.branchName = "Ada"
    /\ users[u].profile.registrationNumber = "Ada"
    /\ Quiet /\ sessions[u] # 0 /\ Sess(u).step = "IDLE"

NoTaskOf(u) == \A i \in TaskIds : tasks[i].pc = "idle" \/ tasks[i].u # u

C16_Step(u) ==
  (users[u].exists /\ (users[u].isBanned \/ users[u].approvalStatus = "PENDING")
     /\ NoTaskOf(u)) =>
    /\ \A i \in TaskIds :
         (tasks'[i].pc # "idle" /\ tasks'[i].u = u)
           => (tasks'[i].pc = "start_upsert" /\ ~users[u].isBanned)
    /\ \A c \in DOMAIN cases' : cases'[c].userId = users[u].id => c \in DOMAIN cases
    /\ users'[u].monthlyUsage = users[u].monthlyUsage
    /\ users'[u].profile = users[u].profile
    /\ users'[u].accountType = users[u].accountType
    /\ sessions'[u] = sessions[u]
    /\ sessions[u] # 0 => heap'[sessions[u]] = heap[sessions[u]]

\* C16: while an account is banned or its approval is pending and none of its handlers
\* is still in flight, no step starts a handler for it other than that of the exact
\* command /start (pending only), creates a case row of it, or changes its usage counter,
\* its profile or its session with the staging slot.
C16_GateHolds == [][\A u \in Users : C16_Step(u)]_vars

\* A firm has finished the signup, holds the notice of the middleware for a stopped
\* event, and its /start is being handled.
C16_Witness ==
  \E u \in Users, i \in TaskIds :
    /\ users[u].approvalStatus = "PENDING"
    /\ users[u].profile.registrationNumber # ""
    /\ replies[u].kind = "pending"
    /\ tasks[i].pc = "start_sess" /\ tasks[i].u = u

\* The code most recently sent to an account; the empty string when none was sent.
C17_LastIssued(u) ==
  IF Issued(u) = {} THEN ""
  ELSE (CHOOSE e \in Issued(u) : \A f \in Issued(u) : f.id <= e.id).kind

C17_Step(u) ==
  /\ (users'[u].isVerified /\ ~users[u].isVerified)
       => /\ sessions[u] # 0 /\ Sess(u).step = "WAITING_VERIFY"
          /\ \E i \in TaskIds : /\ tasks[i].pc = "verify_update" /\ tasks[i].u = u
                                /\ tasks[i].text = C17_LastIssued(u)
  /\ (replies'[u] # replies[u] /\ replies'[u].kind = "invalid")
       => /\ replies'[u].s # C17_LastIssued(u)
          /\ UNCHANGED <<users, store>>
          /\ Sess(u).step = "WAITING_VERIFY"
  /\ \A i \in TaskIds :
       (tasks[i].pc = "idle" /\ tasks'[i].pc = "verify_update" /\ tasks'[i].u = u)
         => tasks'[i].text = C17_LastIssued(u)

\* C17: the verified flag of an account turns true only while a text equal to the code
\* most recently sent to it is being handled and its session waits for the code; a text
\* that differs from that code is answered as invalid and leaves the flag and the session
\* as they were.
C17_VerifyByLatestCode == [][\A u \in Users : C17_Step(u)]_vars

\* An account is verified after a second code was sent and a wrong text was refused.
C17_Witness ==
  \E u \in Users :
    /\ users[u].isVerified
    /\ Cardinality(Issued(u)) >= 2
    /\ replies[u].kind = "invalid"
    /\ Quiet /\ sessions[u] # 0 /\ Sess(u).step = "IDLE"

\* The case rows created for account u since the start, those removed again included.
C18_Created(u) ==
  Cardinality(UserCases(users[u].id)) + Cardinality({d \in deleted : d.userId = users[u].id})

\* C18: in the calendar month of the start the case rows created for an account, through
\* whichever handler, never exceed the monthly limit of the account's tier.
C18_CreatedWithinLimit ==
  ticks = 0 => \A u \in Users : users[u].exists => C18_Created(u) <= TierLimit(u)

\* The case rows of account u written by Case Assembly (stage_save titles its rows
\* "Uploaded Document (Unprocessed)").
C19_Assembled(u) ==
  {c \in UserCases(users[u].id) : cases[c].title # "Uploaded Document (Unprocessed)"}

\* C19: with overlapping Case Assembly runs of an account, once no run is left between
\* its row and its usage write, the usage has grown by one for every row that Case
\* Assembly created, and these rows fit in what the tier limit left at the start.
C19_CountedOnce ==
  \A u \in Users :
    (\A i \in TaskIds : ~(tasks[i].pc = "pci_usage" /\ tasks[i].u = u)) =>
      /\ users[u].monthlyUsage = InitUser(u).monthlyUsage + Cardinality(C19_Assembled(u))
      /\ InitUser(u).monthlyUsage + Cardinality(C19_Assembled(u)) <= TierLimit(u)

\* C20: in the calendar month of the start, a Case Assembly run that is about to write
\* its Case row has already stored the incremented usage, and a run whose row write has
\* failed leaves the usage incremented.
C20_ChargedBeforeRow ==
  \A i \in TaskIds :
    LET t == tasks[i] IN
    IF ticks = 0 /\ (t.pc = "pci_create" \/ (t.pc = "pci_sess" /\ t.caseId = 0))
    THEN users[t.u].exists => users[t.u].monthlyUsage = t.currentUsage + 1
    ELSE TRUE

\* The step takes a text of account u as an answer of the wizard its session is in: an
\* intake step moves to the next one, or the facts or a question start their handler.
C21_Consumed(u) ==
  LET o == sessions[u]
      step == heap[o].step
  IN
  \/ /\ step = "WAITING_JURISDICTION" /\ heap'[o].step = "WAITING_COURT"
  \/ /\ step = "WAITING_COURT" /\ heap'[o].step = "WAITING_PARTIES"
  \/ /\ step = "WAITING_PARTIES" /\ heap'[o].step = "WAITING_FACTS"
  \/ \E i \in TaskIds : /\ tasks[i].pc = "idle" /\ tasks'[i].u = u
                        /\ tasks'[i].pc \in {"pci_begin", "qa_answer"}

\* C21: when /profile was answered while the session was at a wizard step and the
\* session is still as the command left it, no step takes a text of the account as an
\* answer of that wizard.
C21_CommandAbandons ==
  [][\A u \in Users :
       (replies[u].kind = "profile" /\ replies'[u] = replies[u]
          /\ sessions[u] # 0 /\ sessions'[u] = sessions[u]
          /\ Sess(u).step = replies[u].s /\ Sess(u).step # "IDLE")
         => ~C21_Consumed(u)]_vars

\* C22: when /verify has put the session of an account into its own wizard, leaving
\* whatever the session was in before, the staging slot of the session is empty.
C22_AbandonClearsStaging ==
  [][\A u \in Users :
       (\E i \in TaskIds : /\ tasks[i].pc = "verify_issue" /\ tasks[i].u = u
                           /\ tasks'[i].pc = "idle"
                           /\ sessions'[u] # 0
                           /\ heap'[sessions'[u]].step = "WAITING_VERIFY")
         => heap'[sessions'[u]].staging.type = "none"]_vars

\* C23: a document is delivered only in answer to the text that ends the word-count
\* step: when a step sends a document to an account, the session of the account was at
\* EXPORT_WORDS with the case of the document recorded.
C23_ExportThroughWordCount ==
  [][\A u \in Users :
       (replies'[u] # replies[u] /\ replies'[u].kind = "document")
         => /\ sessions[u] # 0
            /\ Sess(u).step = "EXPORT_WORDS"
            /\ Sess(u).data.currentCaseId = replies'[u].n1]_vars

\* The session of account u is at the first scenario question of case c with no answers.
C24_AtFirstQuestion(u, c) ==
  /\ sessions'[u] # 0
  /\ heap'[sessions'[u]].step = "SCENARIO_Q1"
  /\ heap'[sessions'[u]].data.currentCaseId = c
  /\ heap'[sessions'[u]].data.scenarioInputs = EmptyInputs

\* C24: a press of a scenario button of a case, the Scenario button of the case reply,
\* of the history list and of an answer (scenario_case) as well as the Run Scenario
\* button of the case view (run_scenario), leaves the session at the first scenario
\* question of that case with empty scenario answers.
C24_ScenarioButtonsStart ==
  [][\A u \in Users :
       /\ \A i \in TaskIds :
            (tasks[i].pc = "scen_init" /\ tasks[i].u = u /\ tasks'[i].pc = "idle")
              => C24_AtFirstQuestion(u, tasks[i].caseId)
       /\ (replies'[u] # replies[u] /\ replies'[u].kind = "unhandled")
            => C24_AtFirstQuestion(u, replies'[u].n1)]_vars

\* ------------------------------------------------------------ runs over the tiers
\* The subscription column is free text (schema line 7); TRIAL stands for a value that
\* is no key of PLAN_LIMITS.
Tiers == {"FREE", "PRO", "FIRM", "BAR", "TRIAL"}

\* The usage of the month at the start of a run; the rows behind it are deleted again.
UsageStarts == 0..2

\* Account 1 on one of the tiers sends the guided intake, one event after another.
InitPlan ==
  /\ Blank
  /\ \E tier \in Tiers, n \in UsageStarts :
       users = [u \in Users |-> IF u = 1
                                THEN [InitUser(1) EXCEPT !.subscription = tier,
                                                         !.monthlyUsage = n]
                                ELSE InitUser(u)]
  /\ Env({1}, FALSE, {"intake"})

NextPlan ==
  \/ \E u \in Users : Newbrief(u)
  \/ \E u \in Users, text \in IdleTexts : TextIdle(u, text)
  \/ \E u \in Users, text \in Texts : TextIntake(u, text)
  \/ \E u \in Users, text \in Texts : TextFacts(u, text)
  \/ \E i \in TaskIds : PciBegin(i)
  \/ \E i \in TaskIds : PciFind(i)
  \/ \E i \in TaskIds : PciCreate(i)
  \/ \E i \in TaskIds : PciUsage(i)
  \/ \E i \in TaskIds : PciSess(i)

SpecPlan == InitPlan /\ [][NextPlan]_vars

\* The usage check of a run for an account whose tier is no key of the plan table and
\* whose usage has reached Free's limit ends the run with the quota reply and no row.
C25_Step(i) ==
  LET t == tasks[i] IN
  IF t.pc = "pci_find" /\ tasks'[i] # t
  THEN (/\ users[t.u].exists
        /\ users[t.u].subscription \notin {"FREE", "PRO", "FIRM", "BAR"}
        /\ users[t.u].monthlyUsage >= 2)
       => /\ replies'[t.u].kind = "quota_exceeded"
          /\ tasks'[i].pc # "pci_create"
  ELSE TRUE

\* C25: an account whose tier is outside {FREE, PRO, FIRM, BAR} is held to Free's limit
\* of 2 cases: once its usage has reached 2, Case Assembly is rejected with the quota
\* reply.
C25_UnknownTierIsFree == [][\A i \in TaskIds : C25_Step(i)]_vars

\* The usage write of a run that stores usage u under the tier limit L: the warning is
\* sent exactly where u is at least 80% of L and below L, and the row stays.
C26_Step(i) ==
  LET t == tasks[i] IN
  IF t.pc = "pci_usage" /\ tasks'[i].pc = "pci_sess" /\ tasks'[i].saved
  THEN LET u == t.currentUsage + 1
           L == t.limit
       IN
       L \in {2, 10, 20, 999999} =>
         /\ (replies'[t.u].kind = "usage_warning") <=> (10 * u >= 8 * L /\ u < L)
         /\ t.caseId \in DOMAIN cases'
  ELSE TRUE

\* C26: for every tier limit L and usage u after the increment, the usage warning is
\* sent exactly when u is at least 80% of L and less than L, and the case row written
\* before it stays.
C26_WarningAtEightyPercent == [][\A i \in TaskIds : C26_Step(i)]_vars

\* Run j of the account of run i has read the same number of rows as run i and its row
\* is written.
C27_Overlapped(i, j) ==
  /\ j # i
  /\ tasks[j].pc \in {"pci_usage", "pci_sess"}
  /\ tasks[j].caseId \in DOMAIN cases
  /\ tasks[j].u = tasks[i].u
  /\ tasks[j].count = tasks[i].count

\* C27: where two Case Assembly runs of an account have both read the number of its
\* rows before either wrote its row, the row of the second run gets the reference code
\* of the row of the first.
C27_SameCodeInWindow ==
  [][\A i, j \in TaskIds :
       IF tasks[i].pc = "pci_create" /\ nextCaseId' = nextCaseId + 1
          /\ tasks'[i].caseId = nextCaseId
       THEN C27_Overlapped(i, j) =>
              cases'[nextCaseId].refCode = cases[tasks[j].caseId].refCode
       ELSE TRUE]_vars

\* C27: two rows of one account written by overlapping runs carry one reference code.
C27_Witness ==
  \E c, d \in DOMAIN cases :
    /\ c # d
    /\ cases[c].userId = cases[d].userId
    /\ cases[c].refCode = cases[d].refCode
    /\ \E i \in TaskIds : tasks[i].pc = "pci_usage" /\ tasks[i].caseId = d
    /\ \E j \in TaskIds : tasks[j].pc \in {"pci_usage", "pci_sess"} /\ tasks[j].caseId = c

\* ------------------------------------------------------------ /editprofile
\* Two of the six fields of the edit menu (lines 286-291).
EditFields == {"firmCode", "email"}

\* field.toUpperCase()
toUpperCase == [firmCode |-> "FIRMCODE", email |-> "EMAIL"]

\* A slip in the map: two columns are swapped.
fieldMapSwapped == [EDIT_FIRMCODE |-> "email", EDIT_EMAIL |-> "firmCode"]

\* fieldMap (lines 2016-2023)
fieldMap == [EDIT_FIRMCODE |-> "firmCode", EDIT_EMAIL |-> "email"]

\* The values typed into an edit prompt.
EditTexts == {"XYZ"}

\* edit_<field> (lines 1576-1593): the session is kept and its step set.
EditField(u, field) ==
  LET e == Ensure(sessions, heap, u)
      o == e.s[u]
  IN
  /\ Ready(u, "edit")
  /\ sessions' = e.s
  /\ SetHeap([e.h EXCEPT ![o].step = "EDIT_" \o toUpperCase[field]], sessions', tasks)
  /\ Say(u, Reply("edit_prompt", 0, 0, field))
  /\ UNCHANGED <<db, clock, tasks, offered, files, fixed>>

\* A slip in the edit: the rows of the account are renumbered under the new code.
TextEditCascade(u, text) ==
  LET o == sessions[u] IN
  /\ Ready(u, "edit")
  /\ o # 0
  /\ heap[o].step \in DOMAIN fieldMap
  /\ users' = [users EXCEPT ![u].firmCode = text]
  /\ cases' = [c \in DOMAIN cases |->
                IF cases[c].userId = users[u].id
                THEN [cases[c] EXCEPT !.refCode = RefCode(text, c - 1)]
                ELSE cases[c]]
  /\ SetHeap([heap EXCEPT ![o].step = "IDLE"], sessions, tasks)
  /\ Say(u, Reply("updated", 0, 0, fieldMap[heap[o].step]))
  /\ UNCHANGED <<nextCaseId, deleted, clock, sessions, tasks, offered, files, fixed>>

\* case 'EDIT_*' (lines 2010-2031): prisma.user.update of the one column, then the step
\* is idle; the update of a missing row throws past the step.
TextEdit(u, text) ==
  LET o == sessions[u]
      dbField == fieldMap[heap[o].step]
  IN
  /\ Ready(u, "edit")
  /\ o # 0
  /\ heap[o].step \in DOMAIN fieldMap
  /\ IF users[u].exists
     THEN /\ users' = IF dbField = "firmCode"
                      THEN [users EXCEPT ![u].firmCode = text]
                      ELSE [users EXCEPT ![u].profile.email = text]
          /\ SetHeap([heap EXCEPT ![o].step = "IDLE"], sessions, tasks)
          /\ Say(u, Reply("updated", 0, 0, dbField))
     ELSE /\ UNCHANGED users
          /\ SetHeap(heap, sessions, tasks)
          /\ Say(u, Reply("threw", 0, 0, dbField))
  /\ UNCHANGED <<cases, nextCaseId, deleted, clock, sessions, tasks, offered, files, fixed>>

\* ------------------------------------------------------------ add_link
\* The texts sent at the link prompt.
LinkTexts == {"https://l/1", "see file"}

LinkMark == "\n\n[Custom Link Content]: "

\* The number of places where p occurs in s.
RECURSIVE CountOf(_, _)
CountOf(s, p) ==
  IF Len(s) < Len(p) THEN 0
  ELSE (IF StartsWith(s, p) THEN 1 ELSE 0) + CountOf(SubSeq(s, 2, Len(s)), p)

\* add_link_<id> (lines 2348-2358): the session is kept, its step and its case are set.
AddLink(u, id) ==
  LET e == Ensure(sessions, heap, u)
      o == e.s[u]
  IN
  /\ Ready(u, "link")
  /\ Offered(u, "add_link", id)
  /\ sessions' = e.s
  /\ SetHeap([e.h EXCEPT ![o].step = "WAITING_LINK", ![o].data.currentCaseId = id],
             sessions', tasks)
  /\ UNCHANGED <<db, clock, tasks, out, files, fixed>>

\* case 'WAITING_LINK' (lines 1912-1939), with no other event in between: the content
\* behind the link is appended to the description of the focused case and becomes the
\* facts of the session; the update of a missing row throws into the catch.
TextLink(u, text) ==
  LET o == sessions[u]
      caseId == heap[o].data.currentCaseId
      found == caseId \in DOMAIN cases
      existing == IF found THEN cases[caseId].description ELSE ""
  IN
  /\ Ready(u, "link")
  /\ o # 0
  /\ heap[o].step = "WAITING_LINK"
  /\ CountOf(existing, LinkMark) < MaxLinks
  /\ IF ~StartsWith(text, "http")
     THEN /\ Say(u, Reply("invalid", 0, 0, text))
          /\ SetHeap(heap, sessions, tasks)
          /\ UNCHANGED cases
     ELSE \E eo \in ExtractOutcomes :
            LET content == extractTextFromDocument(text, "application/pdf", eo)
                facts == existing \o LinkMark \o content
            IN
            IF caseId = 0
            THEN /\ UNCHANGED <<cases, replies>>
                 /\ SetHeap([heap EXCEPT ![o].step = "IDLE"], sessions, tasks)
            ELSE IF found
            THEN /\ cases' = [cases EXCEPT ![caseId].description = facts]
                 /\ SetHeap([heap EXCEPT ![o].step = "IDLE", ![o].data.facts = facts],
                            sessions, tasks)
                 /\ Say(u, Reply("link_added", caseId, 0, ""))
            ELSE /\ UNCHANGED cases
                 /\ SetHeap([heap EXCEPT ![o].step = "IDLE"], sessions, tasks)
                 /\ Say(u, Reply("link_failed", caseId, 0, ""))
  /\ UNCHANGED <<users, nextCaseId, deleted, clock, sessions, tasks, offered, files, fixed>>

\* ------------------------------------------------------------ runs over the updates
\* A run follows the guided intake and some of the handlers that update a row.
FrameScenarios == {{"intake", "ask", "edit"},
                   {"intake", "wizard", "link"},
                   {"intake", "upload", "team"}}

InitFrame ==
  /\ Start
  /\ provider = "openai"
  /\ \E u \in Users, fl \in FrameScenarios : env = [actors |-> {u}, overlap |-> FALSE,
                                                     ai |-> "ok", flows |-> fl]

NextFrame ==
  \/ \E u \in Users : Newbrief(u)
  \/ \E u \in Users, text \in Texts : TextIntake(u, text)
  \/ \E u \in Users, text \in Texts : TextFacts(u, text)
  \/ \E i \in TaskIds : PciBegin(i)
  \/ \E i \in TaskIds : PciFind(i)
  \/ \E i \in TaskIds : PciCreate(i)
  \/ \E i \in TaskIds : PciUsage(i)
  \/ \E i \in TaskIds : PciSess(i)
  \/ \E u \in Users, id \in 1..MaxCases : Ask(u, id)
  \/ \E u \in Users, text \in Questions : TextQuestion(u, text)
  \/ \E i \in TaskIds : QaAnswer(i)
  \/ \E i \in TaskIds : QaFind(i)
  \/ \E i \in TaskIds : QaUpdate(i)
  \/ \E u \in Users, field \in EditFields : EditField(u, field)
  \/ \E u \in Users, text \in EditTexts : TextEdit(u, text)
  \/ \E u \in Users, id \in 1..MaxCases : ScenarioCase(u, id)
  \/ \E i \in TaskIds : ScenInit(i)
  \/ \E u \in Users, text \in Texts : TextScenario(u, text)
  \/ \E u \in Users, text \in Texts : TextScenarioQ5(u, text)
  \/ \E i \in TaskIds : SimRun(i)
  \/ \E i \in TaskIds : SimSave(i)
  \/ \E u \in Users, id \in 1..MaxCases : AddLink(u, id)
  \/ \E u \in Users, text \in LinkTexts : TextLink(u, text)
  \/ \E u \in Users, mime \in Mimes : Upload(u, mime)
  \/ \E i \in TaskIds : DocRoute(i)
  \/ \E i \in TaskIds : DocClear(i)
  \/ \E u \in Users : StageExisting(u)
  \/ \E u \in Users, id \in 1..MaxCases : StageAssoc(u, id)
  \/ \E i \in TaskIds : AssocFind(i)
  \/ \E i \in TaskIds : AssocUpdate(i)
  \/ \E i \in TaskIds : AssocDone(i)
  \/ \E u \in Users, code \in FirmCodes : StartInvite(u, code)
  \/ \E u \in Users, id \in Users : ConfirmJoin(u, id)
  \/ \E i \in TaskIds : JoinUpdate(i)

\* One account creates cases and then updates them, its profile or its team.
SpecFrame == InitFrame /\ [][NextFrame]_vars

\* C28: no step changes the reference code of a Case row that exists before and after
\* it: not a Q&A append, a scenario save, a link or file append, an edit of the owner's
\* firm code or a team join.
C28_RefCodeFrozen ==
  [][\A c \in DOMAIN cases :
       c \in DOMAIN cases' => cases'[c].refCode = cases[c].refCode]_vars

\* C28: the firm code of account 1 was edited after its first case got a Q&A pair: the
\* first row keeps CASE-1 and the row created after the edit is numbered under XYZ.
C28_Witness ==
  /\ users[1].firmCode = "XYZ"
  /\ \E c, d \in UserCases(1) :
       /\ cases[c].refCode = "CASE-1"
       /\ Len(cases[c].qaHistory) > 0
       /\ cases[d].refCode = "XYZ-002"

\* The write of a Q&A pair by a question that follows the press of an Ask button with
\* no other reply in between: the log that grows is the log of the case of the button.
C29_Step(i) ==
  LET t == tasks[i] IN
  IF t.pc = "qa_update" /\ cases' # cases
  THEN replies[t.u].kind = "ask" =>
         \A c \in DOMAIN cases :
           cases'[c].qaHistory # cases[c].qaHistory => c = replies[t.u].n1
  ELSE TRUE

\* C29: the Q&A pairs of an ask-question loop are appended to the log of the case whose
\* Ask button started the loop, whatever case the session focused before.
C29_ActsOnPressedCase == [][\A i \in TaskIds : C29_Step(i)]_vars

\* ------------------------------------------------------------ overlapping questions
\* The bot starts anew over a store in which account 1 has the one case that its
\* guided intake of the facts "facts a" created: the sessions are gone, the buttons
\* under the brief are still in the chat.  The events of the account may overlap.
FirstCase ==
  LET analysis == analyzeLegalText("openai", "ok") IN
  CaseRow(1, 1, analysis.caseCategory \o " Case", Substring0("facts a", DescMax),
          FormatBrief(analysis), RefCode("", 0))

InitAskConc ==
  /\ users = [u \in Users |-> IF u = 1 THEN [InitUser(1) EXCEPT !.monthlyUsage = 1]
                                         ELSE InitUser(u)]
  /\ cases = (1 :> FirstCase)
  /\ nextCaseId = 2
  /\ deleted = {}
  /\ now = 11
  /\ ticks = 0
  /\ provider = "openai"
  /\ sessions = [u \in Users |-> 0]
  /\ heap = [o \in ObjIds |-> FreeObj]
  /\ tasks = [i \in TaskIds |-> IdleTask]
  /\ replies = [u \in Users |-> NoReply]
  /\ offered = {[u |-> 1, kind |-> k, id |-> 1] : k \in BriefButtons}
  /\ nextFile = 1
  /\ taken = [f \in FileIds |-> 0]
  /\ lost = {}
  /\ boot = Polling
  /\ env = [actors |-> {1}, overlap |-> TRUE, ai |-> "ok", flows |-> {"ask", "wizard"}]

NextAskConc ==
  \/ \E u \in Users, id \in 1..MaxCases : Ask(u, id)
  \/ \E u \in Users, text \in Questions : TextQuestion(u, text)
  \/ \E i \in TaskIds : QaAnswer(i)
  \/ \E i \in TaskIds : QaFind(i)
  \/ \E i \in TaskIds : QaUpdate(i)
  \/ \E u \in Users : QaDone(u)

\* The ask-question loop of one account over its first case, with overlapping events.
SpecAskConc == InitAskConc /\ [][NextAskConc]_vars

\* The store of the start of the overlapping questions, as the guided intake leaves it.
FirstCaseStored ==
  /\ cases = (1 :> FirstCase)
  /\ nextCaseId = 2
  /\ users = [u \in Users |-> IF u = 1 THEN [InitUser(1) EXCEPT !.monthlyUsage = 1]
                                         ELSE InitUser(u)]
  /\ Offer(1, BriefButtons, 1) \subseteq offered
  /\ Quiet

\* s is an initial part of t.
C30_Prefix(s, t) == Len(s) <= Len(t) /\ SubSeq(t, 1, Len(s)) = s

\* C30: the persisted Q&A log of a case only grows at its end: a pair once persisted
\* stays in the log, also where two questions about the case are processed with
\* overlapping reads and writes of the log.
C30_LogAppendOnly ==
  [][\A c \in DOMAIN cases :
       c \in DOMAIN cases' => C30_Prefix(cases[c].qaHistory, cases'[c].qaHistory)]_vars

\* The row of account u with the text written to field f and to nothing else.
C31_Written(u, f, text) ==
  IF f = "firmCode" THEN [users[u] EXCEPT !.firmCode = text]
  ELSE [users[u] EXCEPT !.profile.email = text]

\* C31: the text that follows the prompt of edit field f is written to field f of the
\* account and to no other field or account, and the step is idle afterwards; of two
\* fields selected in a row the prompt, and so the write, is that of the last.
C31_EditCommitsSelected ==
  [][\A u \in Users :
       LET o == sessions[u] IN
       IF (IF o # 0 THEN heap[o].step \in {"EDIT_FIRMCODE", "EDIT_EMAIL"} ELSE FALSE)
          /\ replies[u].kind = "edit_prompt" /\ users' # users
       THEN /\ \E text \in EditTexts :
                 users' = [users EXCEPT ![u] = C31_Written(u, replies[u].s, text)]
            /\ sessions'[u] = o
            /\ heap'[o].step = "IDLE"
       ELSE TRUE]_vars

\* C31: the answer to the e-mail prompt went to the e-mail and the firm code is as before.
C31_Witness ==
  /\ users[1].profile.email = "XYZ"
  /\ users[1].firmCode = ""
  /\ replies[1].kind = "updated"
  /\ sessions[1] # 0
  /\ Sess(1).step = "IDLE"

IntakeSteps == {"WAITING_JURISDICTION", "WAITING_COURT", "WAITING_PARTIES", "WAITING_FACTS"}

\* C32: /newbrief, the answers of the Jurisdiction, Court and Parties steps and whatever
\* event leaves the intake before its Facts answer is processed write no Case row and
\* leave the User table, and so the usage, as it is.
C32_IntakeWritesNothing ==
  [][\A u \in Users :
       LET o == sessions[u]
           n == sessions'[u]
       IN
       ((IF o # 0 THEN heap[o].step \in IntakeSteps ELSE FALSE)
        \/ (IF n # 0 THEN n # o /\ heap'[n].step = "WAITING_JURISDICTION" ELSE FALSE))
       => cases' = cases /\ users' = users /\ nextCaseId' = nextCaseId]_vars

\* C32: the intake of account 1 has its three answers and awaits the facts; no row is
\* written and the usage is as at the start.
C32_Witness ==
  /\ sessions[1] # 0
  /\ Sess(1).step = "WAITING_FACTS"
  /\ Sess(1).data.parties # ""
  /\ cases = <<>>
  /\ users[1].monthlyUsage = InitUser(1).monthlyUsage

\* ------------------------------------------------------------ runs with a lost row
\* The account is deleted while it signs up, the answers and the deletion overlapping
\* (/signup and the account type arrive when no handler is in flight), or before it
\* edits its profile.
GoneScenarios == {<<TRUE, {"signup", "account"}>>, <<FALSE, {"edit", "account"}>>}

InitGone ==
  /\ Start
  /\ provider = "openai"
  /\ \E u \in Users, g \in GoneScenarios : env = [actors |-> {u}, overlap |-> g[1],
                                                   ai |-> "ok", flows |-> g[2]]

NextGone ==
  \/ \E u \in Users : Quiet /\ Signup(u)
  \/ \E u \in Users, accountType \in AccountTypes : Quiet /\ AcctType(u, accountType)
  \/ \E i \in TaskIds : AcctTypeUpdate(i)
  \/ \E i \in TaskIds : AcctTypeSess(i)
  \/ \E u \in Users, text \in Answers : TextSignup(u, text)
  \/ \E i \in TaskIds : SuFind(i)
  \/ \E i \in TaskIds : SuUpdate(i)
  \/ \E i \in TaskIds : SuStep(i)
  \/ \E u \in Users, field \in EditFields : EditField(u, field)
  \/ \E u \in Users, text \in EditTexts : TextEdit(u, text)
  \/ \E u \in Users : DeleteAccount(u)
  \/ \E u \in Users : ConfirmDeleteAccount(u)
  \/ \E i \in TaskIds : AcctCases(i)
  \/ \E i \in TaskIds : AcctUser(i)
  \/ \E i \in TaskIds : AcctSess(i)

SpecGone == InitGone /\ [][NextGone]_vars

\* The update of a signup answer fails: the step of the session is as before.
C33_Signup(i) ==
  LET t == tasks[i] IN
  IF t.pc \in {"su_update", "acct_type_update"} /\ tasks'[i] # t
  THEN ~users[t.u].exists =>
         /\ sessions' = sessions
         /\ \A u \in Users :
              IF sessions[u] # 0 THEN heap'[sessions[u]].step = heap[sessions[u]].step
              ELSE TRUE
  ELSE TRUE

\* The update of a profile-edit answer fails: the step of the session is as before.
C33_Edit(u) ==
  LET o == sessions[u] IN
  IF (IF o # 0 THEN heap[o].step \in {"EDIT_FIRMCODE", "EDIT_EMAIL"} ELSE FALSE)
     /\ replies'[u] # replies[u] /\ replies'[u].kind = "threw"
  THEN sessions'[u] = o /\ heap'[o].step = heap[o].step
  ELSE TRUE

\* C33: where the update of the User row fails while an answer of a signup step or of
\* a profile-edit step is processed, the session step is neither advanced nor reset.
C33_FailureKeepsStep ==
  [][(\A i \in TaskIds : C33_Signup(i)) /\ (\A u \in Users : C33_Edit(u))]_vars

\* C33: the answer to an edit prompt of an identity without a row failed and the
\* prompt still awaits its answer.
C33_Witness ==
  \E u \in Users :
    /\ ~users[u].exists
    /\ replies[u].kind = "threw"
    /\ sessions[u] # 0
    /\ Sess(u).step \in {"EDIT_FIRMCODE", "EDIT_EMAIL"}

\* The name answer of a signup failed on a row deleted in between; the step is kept.
C33_SignupFailed ==
  \E i \in TaskIds, u \in Users :
    /\ tasks[i].pc = "su_update" /\ tasks[i].u = u /\ ~users[u].exists

\* ------------------------------------------------------------ the media handlers
\* The kinds of message of bot.on(['document', 'photo']) (line 2169), of
\* bot.on(['voice', 'audio']) (line 2361) and of bot.on('photo') (line 2413), in the order
\* of their registration.
MediaHandlers == <<{"document", "photo"}, {"voice", "audio"}, {"photo"}>>

MediaTypes == {"document", "photo"}

\* A slip in the dispatch: the handler registered last takes the message.
RouteLast(type) ==
  CHOOSE k \in 1..Len(MediaHandlers) :
     type \in MediaHandlers[k] /\ \A j \in (k + 1)..Len(MediaHandlers) : type \notin MediaHandlers[j]

\* The handler registered first for the kind takes the message; none calls next().
Route(type) ==
  CHOOSE k \in 1..Len(MediaHandlers) :
     type \in MediaHandlers[k] /\ \A j \in 1..(k - 1) : type \notin MediaHandlers[j]

\* The mime type of the message (lines 2177-2186).
MimeOf(type, mime) == IF type = "document" THEN mime ELSE "image/jpeg"

\* bot.on('photo') (lines 2413-2462): the text of the photo is read and analysed and a
\* case "Image Capture" is written for the sender; a failure of a call ends the handler.
PhotoCase(u) ==
  LET user == users[u]
      count == Cardinality(UserCases(user.id))
      uid == IF user.exists THEN user.id ELSE 1
      refCode == RefCode(IF user.exists THEN user.firmCode ELSE "", IF user.exists THEN count ELSE 0)
      e == Ensure(sessions, heap, u)
      o == e.s[u]
  IN
  /\ Ready(u, "upload")
  /\ nextFile <= MaxUploads
  /\ nextFile' = nextFile + 1
  /\ \/ /\ MayCreate /\ OwnerExists(uid)
        /\ \E eo \in ExtractOutcomes :
             LET text == extractTextFromDocument(FileUrl(nextFile), "image/jpeg", eo)
                 row == CaseRow(nextCaseId, uid, "Image Capture", text, "", refCode)
             IN /\ cases' = cases @@ (nextCaseId :> row)
                /\ SetHeap([e.h EXCEPT ![o].data.currentCaseId = nextCaseId,
                                       ![o].data.facts = text], e.s, tasks)
        /\ nextCaseId' = nextCaseId + 1
        /\ sessions' = e.s
        /\ taken' = Take([type |-> "file", content |-> FileUrl(nextFile), mime |-> "image/jpeg"])
     \/ UNCHANGED <<cases, nextCaseId, store, taken>>
  /\ UNCHANGED <<users, deleted, clock, tasks, out, lost, fixed>>

\* A document or a photo arrives.
Media(u, type, mime) ==
  IF Route(type) = 1 THEN Upload(u, MimeOf(type, mime)) ELSE PhotoCase(u)

InitMedia == Start /\ \E u \in Users : Env({u}, FALSE, {"intake", "upload"})

NextMedia ==
  \/ \E u \in Users : Newbrief(u)
  \/ \E u \in Users, text \in Texts : TextIntake(u, text)
  \/ \E u \in Users, text \in Texts : TextFacts(u, text)
  \/ \E i \in TaskIds : PciBegin(i)
  \/ \E i \in TaskIds : PciFind(i)
  \/ \E i \in TaskIds : PciCreate(i)
  \/ \E i \in TaskIds : PciUsage(i)
  \/ \E i \in TaskIds : PciSess(i)
  \/ \E u \in Users, type \in MediaTypes, mime \in Mimes : Media(u, type, mime)
  \/ \E i \in TaskIds : DocRoute(i)
  \/ \E i \in TaskIds : DocClear(i)
  \/ \E u \in Users : StageNew(u)
  \/ \E u \in Users : StageExisting(u)
  \/ \E u \in Users, id \in 1..MaxCases : StageAssoc(u, id)
  \/ \E i \in TaskIds : AssocFind(i)
  \/ \E i \in TaskIds : AssocUpdate(i)
  \/ \E i \in TaskIds : AssocDone(i)
  \/ \E u \in Users : StageAnalyze(u)
  \/ \E i \in TaskIds : AnCall(i)
  \/ \E i \in TaskIds : AnClear(i)
  \/ \E u \in Users : StageSave(u)
  \/ \E i \in TaskIds : SaveFind(i)
  \/ \E i \in TaskIds : SaveCreate(i)
  \/ \E i \in TaskIds : SaveDone(i)
  \/ \E u \in Users : StageCancel(u)

SpecMedia == InitMedia /\ [][NextMedia]_vars

\* The handlers that take a staged upload: the route of the intake Facts step and the
\* classifications (analyse or save as a new case, add to an existing case).
TakerPcs == {"doc_route", "an_call", "save_create", "assoc_update"}

\* C34: a document or photo that arrives while the step is not WAITING_FACTS is staged
\* only: the step of its arrival writes no Case row, changes no usage, hands the file to
\* no consumer and starts no handler; later a file is handed on only by the handler of a
\* classification (or of the Facts route), and no step writes a row while taking a file
\* outside these handlers.
C34_Arrival ==
  \A u \in Users :
     LET o == sessions[u]
         step == IF o # 0 THEN heap[o].step ELSE "IDLE"
     IN (u \in env.actors /\ nextFile' # nextFile /\ step # "WAITING_FACTS")
        => /\ cases' = cases /\ users' = users /\ taken' = taken /\ tasks' = tasks
           /\ (sessions'[u] # 0 =>
                 heap'[sessions'[u]].staging.type \in {"file", "none"})

C34_Taken ==
  taken' # taken => \E i \in TaskIds : tasks[i].pc \in TakerPcs

C35_Step ==
  \A i \in TaskIds :
     LET t == tasks[i]
         o == t.sess
     IN IF t.pc \in {"an_clear", "search_done"} /\ tasks'[i].pc = "idle" /\ o # 0
        THEN (heap[o].staging.type = "file" /\ heap[o].staging # t.input
                /\ \E u \in Users : sessions[u] = o)
             => /\ sessions' = sessions
                /\ heap'[o].staging = heap[o].staging
                /\ t.text # heap[o].staging.content
        ELSE TRUE

C35_NewerUploadKept == [][C35_Step]_vars

\* C36: the answer to the link prompt changes the description of the active case only
\* by the text of a link that was fetched and read: after a failed fetch or a failed
\* extraction the description is as before; the step is IDLE after either.
C36_Step ==
  \A u \in Users :
     LET o == sessions[u] IN
     IF (IF o # 0 THEN heap[o].step = "WAITING_LINK" ELSE FALSE) /\ cases' # cases
     THEN /\ \A c \in DOMAIN cases :
               cases'[c].description # cases[c].description
               => ~Includes(cases'[c].description, "Error extracting text")
          /\ heap'[sessions'[u]].step = "IDLE"
     ELSE TRUE

C36_AppendOnlyOnSuccess == [][C36_Step]_vars

\* ------------------------------------------------------------ two accounts
\* Both accounts send events; the handlers of one account run one after the other or
\* overlap with those of the other.
InitTwo ==
  /\ Start
  /\ provider = "openai"
  /\ \E ov \in BOOLEAN : env = [actors |-> Users, overlap |-> ov, ai |-> "ok",
                                flows |-> {"intake", "upload", "team"}]

\* Account 1 answers the intake and is named as staff; account 2 uploads and adds staff.
NextTwo ==
  \/ \E u \in {1} : Newbrief(u)
  \/ \E u \in {1}, text \in Texts : TextIntake(u, text)
  \/ \E u \in {2}, mime \in Mimes : Upload(u, mime)
  \/ \E u \in {2} : StageCancel(u)
  \/ \E u \in Users : Addstaff(u)
  \/ \E u \in Users, name \in Usernames : TextAddstaff(u, name)
  \/ \E i \in TaskIds : AddFind(i)
  \/ \E i \in TaskIds : AddUpdate(i)

SpecTwo == InitTwo /\ [][NextTwo]_vars

\* The accounts whose handler takes the step.
C37_Actors ==
  {tasks[i].u : i \in {j \in TaskIds : tasks'[j] # tasks[j] /\ tasks[j].pc # "idle"}}
  \cup {tasks'[i].u : i \in {j \in TaskIds : tasks'[j] # tasks[j] /\ tasks'[j].pc # "idle"}}

C37_SameSession(b) ==
  /\ (sessions'[b] = 0) = (sessions[b] = 0)
  /\ IF sessions[b] # 0 /\ sessions'[b] # 0
     THEN /\ heap'[sessions'[b]].step = heap[sessions[b]].step
          /\ heap'[sessions'[b]].data = heap[sessions[b]].data
          /\ heap'[sessions'[b]].staging = heap[sessions[b]].staging
     ELSE TRUE

\* C37: a step of a handler of account A leaves the session of every other account B
\* as it is (step, accumulated answers, staging slot), however the events of the two
\* accounts interleave: every step changes the session of at most one account, and a
\* step of a handler in flight only that of its sender.
C37_Step ==
  /\ \A b \in Users \ C37_Actors : C37_Actors # {} => C37_SameSession(b)
  /\ \E a \in Users : \A b \in Users \ {a} : C37_SameSession(b)

C37_SessionsIsolated == [][C37_Step]_vars

\* Account 1 is in the middle of its intake with an answer given, account 2 holds a
\* staged upload, and a handler of account 2 is in flight.
C37_Witness ==
  /\ sessions[1] # 0 /\ sessions[2] # 0
  /\ Sess(1).step = "WAITING_COURT" /\ Sess(1).data.jurisdiction # ""
  /\ Sess(2).staging.type = "file"
  /\ \E i \in TaskIds : tasks[i].pc = "add_update" /\ tasks[i].u = 2

\* C38: a Case row is written for the account of the sender of the event whose handler
\* writes it; the handler of an event of a sender without an account row writes none.
C38_Step ==
  \A c \in DOMAIN cases' \ DOMAIN cases :
     \E i \in TaskIds :
        /\ tasks[i].pc \in {"pci_create", "save_create"}
        /\ tasks'[i] # tasks[i]
        /\ IF tasks[i].u \in Users
           THEN users[tasks[i].u].exists /\ cases'[c].userId = users[tasks[i].u].id
           ELSE FALSE

C38_OwnedByCreator == [][C38_Step]_vars

\* ------------------------------------------------------------ /scenario <id> and /export <id>
\* /scenario <id> (lines 944-954): prisma.caseMatter.findUnique({ where: { id } }); a
\* missing case or one without a description is answered, otherwise the title is
\* replied and the simulation of the description starts.
ScenarioCmd(u, id) ==
  LET found == id \in DOMAIN cases
      userCase == cases[id]
  IN
  /\ Ready(u, "commands")
  /\ IF (IF found THEN userCase.description = "" ELSE TRUE)
     THEN /\ Say(u, Reply("case_not_found", id, 0, ""))
          /\ UNCHANGED tasks
     ELSE /\ HasFreeTask
          /\ tasks' = Spawn([IdleTask EXCEPT !.pc = "scen_cmd", !.u = u, !.caseId = id,
                                             !.text = userCase.description])
          /\ Say(u, Reply("simulating", id, 0, userCase.title))
  /\ SetHeap(heap, sessions, tasks')
  /\ UNCHANGED <<db, clock, sessions, offered, files, fixed>>

\* aiService.runSimulation(userCase.description) and the reply with its result (lines
\* 956-958).
ScenCmdDone(i) ==
  LET t == tasks[i] IN
  /\ t.pc = "scen_cmd"
  /\ tasks' = Finish(i)
  /\ Say(t.u, Reply("simulation", t.caseId, 0,
                    IF provider = "none" THEN "Simulation Unavailable." ELSE t.text))
  /\ SetHeap(heap, sessions, tasks')
  /\ UNCHANGED <<db, clock, sessions, offered, files, fixed>>

\* /export <id> (lines 984-993) and showExportMenu (lines 1018-1027): the case is read by
\* its id and the formats are offered under its reference code.
ExportCmd(u, id) ==
  /\ Ready(u, "commands")
  /\ IF id \in DOMAIN cases
     THEN /\ Say(u, Reply("export_menu", id, 0, cases[id].refCode))
          /\ offered' = Offer(u, {"export_pdf", "export_word"}, id)
     ELSE /\ Say(u, Reply("case_not_found", id, 0, ""))
          /\ UNCHANGED offered
  /\ UNCHANGED <<db, clock, store, tasks, files, fixed>>

\* export_pdf_<id> (lines 1029-1053): the case is read by its id and its title, code
\* and description are sent as a document.
ExportPdf(u, id) ==
  /\ Ready(u, "commands")
  /\ Offered(u, "export_pdf", id)
  /\ Say(u, IF id \in DOMAIN cases THEN Reply("pdf", id, 0, cases[id].description)
            ELSE Reply("error", id, 0, ""))
  /\ UNCHANGED <<db, clock, store, tasks, offered, files, fixed>>

\* Both accounts send events, one after the other; account 1 files the cases.
InitCmd ==
  /\ Start
  /\ provider = "openai"
  /\ env = [actors |-> Users, overlap |-> FALSE, ai |-> "ok", flows |-> {"intake", "commands"}]

NextCmd ==
  \/ \E u \in {1} : Newbrief(u)
  \/ \E u \in {1}, text \in Texts : TextIntake(u, text)
  \/ \E u \in {1}, text \in Texts : TextFacts(u, text)
  \/ \E i \in TaskIds : PciBegin(i)
  \/ \E i \in TaskIds : PciFind(i)
  \/ \E i \in TaskIds : PciCreate(i)
  \/ \E i \in TaskIds : PciUsage(i)
  \/ \E i \in TaskIds : PciSess(i)
  \/ \E u \in Users, id \in 1..MaxCases : ScenarioCmd(u, id)
  \/ \E i \in TaskIds : ScenCmdDone(i)
  \/ \E u \in Users, id \in 1..MaxCases : ExportCmd(u, id)
  \/ \E u \in Users, id \in 1..MaxCases : ExportPdf(u, id)

SpecCmd == InitCmd /\ [][NextCmd]_vars

\* The case is one of the account or of its team.
C39_Owns(u, id) ==
  IF id \in DOMAIN cases
  THEN \/ cases[id].userId = users[u].id
       \/ users[u].teamOwnerId # 0 /\ cases[id].userId = users[u].teamOwnerId
       \/ \E v \in Users : users[v].exists /\ users[v].teamOwnerId = users[u].id
                           /\ cases[id].userId = users[v].id
  ELSE FALSE

\* C39: /export <id> and /scenario <id> show or simulate the content of case <id> (its
\* title, code, description or simulation) only to the account that owns it or to its
\* team; for a case of another account the reply is that the case is not found.
C39_OnlyOwnCases ==
  \A u \in Users :
     /\ replies[u].kind \in {"simulating", "simulation", "export_menu", "pdf"}
        => C39_Owns(u, replies[u].n1)
     /\ \A id \in DOMAIN cases :
           [u |-> u, kind |-> "export_pdf", id |-> id] \in offered => C39_Owns(u, id)

\* ------------------------------------------------------------ the start of the process
\* The errors of a launch: three network codes, a timeout message without a code and a
\* refusal of the token.
LaunchErrors ==
  {[code |-> "ETIMEDOUT", message |-> "connect ETIMEDOUT"],
   [code |-> "ECONNRESET", message |-> "socket hang up"],
   [code |-> "ENOTFOUND", message |-> "getaddrinfo ENOTFOUND"],
   [code |-> "", message |-> "request timeout"],
   [code |-> "", message |-> "401: Unauthorized"]}

\* error.code === 'ETIMEDOUT' || ... || error.message?.includes('timeout')
isNetworkError(error) ==
  \/ error.code = "ETIMEDOUT"
  \/ error.code = "ECONNRESET"
  \/ error.code = "ENOTFOUND"
  \/ Includes(error.message, "timeout")

RECURSIVE Pow(_, _)
Pow(b, n) == IF n = 0 THEN 1 ELSE b * Pow(b, n - 1)

\* INITIAL_DELAY * Math.pow(1.5, attempt - 1), as the whole milliseconds of the timer.
Backoff(attempt) == (INITIAL_DELAY * Pow(3, attempt - 1)) \div Pow(2, attempt - 1)

\* main: bot.telegram.getMe() succeeds and launchWithRetry(bot) is called, or it fails
\* and the process exits.
Main ==
  /\ boot.pc = "main"
  /\ \/ boot' = [boot EXCEPT !.pc = "launching", !.attempt = 1]
     \/ boot' = [boot EXCEPT !.pc = "exited"]
  /\ UNCHANGED <<db, clock, store, tasks, out, files, provider, env>>

\* bot.launch() throws at the call: the catch of launchWithRetry waits and tries again
\* after a network error before the last attempt, and throws otherwise; main().catch
\* then exits the process.
LaunchThrows(error) ==
  /\ boot.pc = "launching"
  /\ boot' = IF isNetworkError(error) /\ boot.attempt < MAX_RETRIES
             THEN [boot EXCEPT !.pc = "delay", !.delay = Backoff(boot.attempt),
                               !.error = error, !.failures = @ + 1]
             ELSE [boot EXCEPT !.pc = "exited", !.error = error, !.failures = @ + 1]
  /\ UNCHANGED <<db, clock, store, tasks, out, files, provider, env>>

\* The timer of the delay fires: launchWithRetry(bot, attempt + 1).
Retry ==
  /\ boot.pc = "delay"
  /\ boot' = [boot EXCEPT !.pc = "launching", !.attempt = @ + 1, !.delay = 0]
  /\ UNCHANGED <<db, clock, store, tasks, out, files, provider, env>>

\* bot.launch() returns its promise, which is not awaited: launchWithRetry and main
\* return and the bot polls.
LaunchReturns ==
  /\ boot.pc = "launching"
  /\ boot' = [boot EXCEPT !.pc = "polling"]
  /\ UNCHANGED <<db, clock, store, tasks, out, files, provider, env>>

\* The promise of bot.launch() is rejected: no catch holds it, the handler of
\* 'unhandledRejection' logs the error and the process goes on without polling.
LaunchRejects(error) ==
  /\ boot.pc = "polling"
  /\ ~boot.rejected
  /\ boot' = [boot EXCEPT !.rejected = TRUE, !.error = error, !.failures = @ + 1]
  /\ UNCHANGED <<db, clock, store, tasks, out, files, provider, env>>

InitLaunch ==
  /\ Constructed
  /\ users = [u \in Users |-> InitUser(u)]
  /\ provider = "openai"
  /\ env = [actors |-> {}, overlap |-> FALSE, ai |-> "ok", flows |-> {}]
  /\ boot = [Polling EXCEPT !.pc = "main", !.attempt = 0]

NextLaunch ==
  \/ Main
  \/ \E error \in LaunchErrors : LaunchThrows(error)
  \/ Retry
  \/ LaunchReturns
  \/ \E error \in LaunchErrors : LaunchRejects(error)

SpecLaunch == InitLaunch /\ [][NextLaunch]_vars

\* C40: launchWithRetry makes at most MAX_RETRIES attempts; a launch that fails with a
\* network error before the last attempt is followed by the delay and the next attempt,
\* and a launch that fails otherwise, or at the last attempt, ends the process.
C40_Step ==
  /\ boot'.attempt <= MAX_RETRIES
  /\ boot'.failures # boot.failures
     => IF isNetworkError(boot'.error) /\ boot.attempt < MAX_RETRIES
        THEN boot'.pc = "delay" /\ boot'.delay > 0
        ELSE boot'.pc = "exited"

C40_RetryOrExit == [][C40_Step]_vars

====
